---------------------------- MODULE Spec2Model ----------------------------
(***************************************************************************)
(* VirtualDisplayPy: the multi-transport emulation core (SerialEmulator),  *)
(* its display-content processing and its event bus, and the test harness  *)
(* around it: TestRunner, ContinuousTestRunner, the run command of the     *)
(* command line and ScenarioValidator.                                     *)
(*                                                                         *)
(* Strings are sequences of one-character strings, so that strip, lower,   *)
(* startswith, split and slicing are computed as Python computes them.     *)
(* Dictionaries are functions whose DOMAIN is the set of keys.             *)
(***************************************************************************)
EXTENDS Integers, Sequences, FiniteSets, Bags, TLC

VARIABLES
    ports,              \* SerialEmulator.ports: port name -> port mock
    active_connections, \* SerialEmulator.active_connections: port name -> connection type
    display_content,    \* SerialEmulator.display_content: port name -> list of lines
    message_queue,      \* SerialEmulator.message_queue: queued DisplayCommands
    is_processing,      \* SerialEmulator.is_processing
    event_handlers,     \* SerialEmulator.event_handlers: event -> list of handlers
    statistics,         \* SerialEmulator.statistics
    tasks,              \* foreground coroutines: the bag of calls in flight (position, locals)
    worker,             \* the background thread: position and locals
    last_return,        \* outcome and events of the call that completed last
    out_seqs,           \* sequence numbers of the outbound records, in emission order
    destroyed,          \* destroy() has been called
    call,               \* input of a display-content processing call
    dispatch,           \* handler invocations of the emit in progress or completed last
    results,            \* TestRunner.results
    run,                \* run_scenario in progress: position, scenario, result so far
    batch,              \* run_scenarios in progress: position, scenarios, next index
    continuous,         \* ContinuousTestRunner: is_running, position, reports written
    cli,                \* the CLI run command: position, report, exit code
    commands,           \* the commands a subscriber of the command events follows
    validation,         \* a Scenario Validator call: input, rules evaluated, outcome
    clock,              \* time.time(): the latency a send measures next, and those measured
    loader,             \* ScenarioLoader: the files it reads and writes, scenarios, last call
    loggers,            \* logging's registry: logger name -> level and handlers
    window,             \* VirtualDisplayMainWindow: displays and the configuration panel
    bridge,             \* the simplified GUI: its displays and the message file it polls
    monitoring,         \* MonitoringWidget: the rows of the communications table
    console             \* VirtualDisplayConsole: the display registry and the default configs

vars == <<ports, active_connections, display_content, message_queue, is_processing,
          event_handlers, statistics, tasks, worker, last_return, out_seqs, destroyed,
          call, dispatch, results, run, batch, continuous, cli, commands, validation,
          clock, loader, loggers, window, bridge, monitoring, console>>

\* the simplified GUI's file bridge, the monitoring panel and the console shell
tool_vars == <<bridge, monitoring, console>>

\* the scenario loader, the logging registry, the main window and the tools
app_vars == <<loader, loggers, window, tool_vars>>

\* the surroundings of the emulation core: the test harness, a subscriber of
\* the command events and the clock
harness_vars ==
    <<results, run, batch, continuous, cli, commands, validation, clock, app_vars>>

emu_vars == <<ports, active_connections, display_content, message_queue, is_processing,
              event_handlers, statistics, tasks, worker, last_return, out_seqs, destroyed>>

-----------------------------------------------------------------------------
(* Bounds *)

\* send attempts (cap on statistics.total_messages)
MaxMessages == 2

\* cap on statistics.active_connections
MaxActive == 2

\* send attempts where the latencies are followed
MaxSends == 4

\* displays added to the main window
MaxDisplays == 1

\* displays the main window holds at once when they are added and removed
MaxHeld == 2

\* lines the senders append to the message file
MaxAppends == 2

\* the last date of the file system
MaxDate == 2

\* entries added to the communications table
MaxAdds == 1002

\* scenario entries of a scenario file
MaxEntries == 2

\* queued commands
MaxQueue == 1

\* registered handlers, all events together (event bus)
MaxHandlers == 3

\* registered handlers while the emulator runs
MaxSubscribers == 1

\* line_length of an enumerated configuration
MaxLineLen == 2

\* characters of an enumerated message
MaxMsgLen == 3

\* run_scenario calls
MaxRuns == 2

\* test cycles of run_continuous_tests
MaxCycles == 2

\* commands a subscriber follows
MaxCommands == 3

\* rules of an expectation map
MaxRules == 2


-----------------------------------------------------------------------------
(* Strings *)

NL == "\n"

Whitespace == {" ", NL}

\* str.lower(), one character
lower_char(c) ==
    CASE c = "C" -> "c"
      [] c = "L" -> "l"
      [] c = "E" -> "e"
      [] c = "A" -> "a"
      [] c = "R" -> "r"
      [] c = "X" -> "x"
      [] OTHER -> c

\* str.lower()
lower(s) == [i \in 1..Len(s) |-> lower_char(s[i])]

\* str.strip(): leading and trailing whitespace removed
RECURSIVE lstrip(_)
lstrip(s) == IF s # <<>> /\ Head(s) \in Whitespace THEN lstrip(Tail(s)) ELSE s

RECURSIVE rstrip(_)
rstrip(s) ==
    IF s # <<>> /\ s[Len(s)] \in Whitespace THEN rstrip(SubSeq(s, 1, Len(s) - 1)) ELSE s

strip(s) == rstrip(lstrip(s))

\* str.startswith(prefix)
startswith(s, prefix) ==
    Len(s) >= Len(prefix) /\ SubSeq(s, 1, Len(prefix)) = prefix

\* str.split('\n'): one more piece than there are newlines
RECURSIVE split(_)
split(s) ==
    IF \A i \in 1..Len(s) : s[i] # NL
    THEN <<s>>
    ELSE LET k == CHOOSE i \in 1..Len(s) : s[i] = NL /\ \A j \in 1..(i - 1) : s[j] # NL
         IN  <<SubSeq(s, 1, k - 1)>> \o split(SubSeq(s, k + 1, Len(s)))

\* s[:n] for n >= 0
slice(s, n) == SubSeq(s, 1, IF n < Len(s) THEN n ELSE Len(s))

clear_word == <<"c", "l", "e", "a", "r">>

\* [""] * n
blank_lines(n) == [i \in 1..n |-> <<>>]


-----------------------------------------------------------------------------
(* Configurations and messages *)

PortNames == {"COM1", "USB1"}

\* the port variants create_virtual_port can build
Kinds == {"serial", "usb", "usb_serial", "network"}

\* ConnectionType
ConnectionTypes == Kinds \cup {"bluetooth"}

\* VirtualDisplayConfig.display_lines: Literal[1, 2, 3, 4]
DisplayLines == 1..4

\* VirtualDisplayConfig, the fields the emulation core reads
VirtualDisplayConfig(p, k, dl, ll, sf, er) ==
    [port_name |-> p, connection_type |-> k, display_lines |-> dl, line_length |-> ll,
     simulated_failures |-> sf, error_rate |-> er]

\* all messages of at most n characters over alphabet A
RECURSIVE StringsUpTo(_, _)
StringsUpTo(A, n) ==
    IF n = 0 THEN {<<>>}
    ELSE LET shorter == StringsUpTo(A, n - 1)
         IN  shorter \cup {<<c>> \o s : c \in A, s \in {x \in shorter : Len(x) = n - 1}}

\* "clear" in every letter case
ClearSpellings ==
    {[i \in 1..5 |-> IF i \in U THEN <<"C", "L", "E", "A", "R">>[i] ELSE clear_word[i]] :
        U \in SUBSET (1..5)}

-----------------------------------------------------------------------------
(* Display-content processing *)

\* the clear test as a case-sensitive comparison
is_clear_case_sensitive(message) ==
    strip(message) = <<>> \/ startswith(message, clear_word)

\* message.strip() == "" or message.lower().startswith("clear")
is_clear(message) ==
    strip(message) = <<>> \/ startswith(lower(message), clear_word)

\* the lines limited and padded but not cut to the display width
lines_untruncated(message, config) ==
    LET lines == split(message)
        limited == IF Len(lines) > config.display_lines
                   THEN SubSeq(lines, 1, config.display_lines) ELSE lines
    IN  limited \o blank_lines(config.display_lines - Len(limited))

\* the lines _process_display_message stores for a message that is not a clear
lines_of(message, config) ==
    LET lines == split(message)
        limited == IF Len(lines) > config.display_lines
                   THEN SubSeq(lines, 1, config.display_lines) ELSE lines
        padded == limited \o blank_lines(config.display_lines - Len(limited))
    IN  [i \in 1..Len(padded) |->
            IF Len(padded[i]) > config.line_length
            THEN slice(padded[i], config.line_length) ELSE padded[i]]

\* the content _process_display_message stores
content_of(message, config) ==
    IF is_clear(message) THEN blank_lines(config.display_lines)
    ELSE lines_of(message, config)

\* self.display_content[port_name] = lines
store(content, port_name, lines) == (port_name :> lines) @@ content

-----------------------------------------------------------------------------
(* Emulation core: data *)

\* the coroutines callers keep in flight at once
Slots == {"a", "b"}

\* caller inputs of the emulation core
Geometries == {<<2, 3>>}

FaultProfiles == {<<{}, 0>>, <<{"timeout", "disconnect", "corruption"}, 50>>}

\* the connection types a caller configures under each port name
TypesOf(port_name) ==
    IF port_name = "COM1" THEN {"serial", "usb_serial", "bluetooth"}
    ELSE {"usb", "network"}

\* the configurations callers of the emulation core pass
CallerConfigs ==
    UNION {{VirtualDisplayConfig(p, k, g[1], g[2], f[1], f[2]) :
               k \in TypesOf(p), g \in Geometries, f \in FaultProfiles} : p \in PortNames}

\* the configurations passed to create_virtual_port, which reads the port
\* name and the connection type only
CreateConfigs == {c \in CallerConfigs : c.simulated_failures = {}}

Messages ==
    { <<"C", "l", "e", "a", "r">>,
      <<"a", "b", "c", "d", NL, "e", NL, "f">> }

\* random.random() * 100, two representative draws
Draws == {0, 99}

CommandTypes == {"clear", "write", "cursor"}

\* command_data of queue_command
Commands ==
    {[type |-> ty, port_name |-> "COM1", data |-> <<"h", "i">>] : ty \in CommandTypes}

NoCommand == [type |-> "none", port_name |-> "", data |-> <<>>]

NoConfig == VirtualDisplayConfig("", "none", 0, 0, {}, 0)

\* SerialPortMock / USBDisplayMock / USBSerialDisplayMock / NetworkDisplayMock
\* as constructed: closed, not connected
NewPort(kind) == [kind |-> kind, is_open |-> FALSE, is_connected |-> FALSE]

\* the flag send_message tests before transmitting, by port variant
CanSend(port) ==
    CASE port.kind = "serial" -> port.is_open
      [] port.kind = "usb" -> port.is_connected
      [] port.kind = "usb_serial" -> port.is_connected
      [] port.kind = "network" -> port.is_connected
      [] OTHER -> FALSE

\* the flag the variant's write tests after the transmission delay
\* (NetworkDisplayMock.send tests before its delay)
CanWrite(port) ==
    CASE port.kind = "serial" -> port.is_open
      [] port.kind = "usb" -> port.is_connected
      [] port.kind = "usb_serial" -> port.is_open
      [] port.kind = "network" -> TRUE
      [] OTHER -> FALSE

\* an emitted event; display-update with what a handler reads of the statistics
\* when it runs
Event(name, port_name, st) ==
    [name |-> name, port_name |-> port_name,
     total |-> IF name = "display-update" THEN st.total_messages ELSE 0,
     successful |-> IF name = "display-update" THEN st.successful_messages ELSE 0]

\* a call in flight: the coroutine's position and the locals it still reads
Call(op, pc, port_name, config, message, seq, events) ==
    [op |-> op, pc |-> pc, port_name |-> port_name, config |-> config,
     message |-> message, seq |-> seq, events |-> events]

\* a configuration whose fault-injection fields the call does not read again
Settled(config) == [config EXCEPT !.simulated_failures = {}, !.error_rate = 0]

NoReturn == [op |-> "none", port_name |-> "", result |-> "none", events |-> <<>>]

Return(op, port_name, result, events) ==
    [op |-> op, port_name |-> port_name, result |-> result, events |-> events]

NoCall ==
    [pc |-> "idle", port_name |-> "", message |-> <<>>, config |-> NoConfig, prior |-> <<>>]

NoDispatch == [event |-> "", invoked |-> <<>>, raised |-> FALSE]

\* del d[k]
remove(d, k) == [x \in DOMAIN d \ {k} |-> d[x]]

\* d[k] = v
assign(d, k, v) == (k :> v) @@ d

\* the calls of one operation in flight
InFlight(op) == BagCardinality([k \in {x \in DOMAIN tasks : x.op = op} |-> tasks[k]])

\* a caller may start another coroutine
Free == BagCardinality(tasks) < Cardinality(Slots)

\* callers pass the configuration the port was created from
Matches(port_name, config) ==
    /\ config.port_name = port_name
    /\ port_name \in DOMAIN ports => ports[port_name].kind = config.connection_type

\* a call returns or raises: its coroutine ends
Finish(k, op, port_name, result, events) ==
    /\ tasks' = tasks (-) SetToBag({k})
    /\ last_return' = Return(op, port_name, result, events)

\* a call returns or raises before its first suspension point
FinishAtOnce(op, port_name, result, events) ==
    /\ tasks' = tasks
    /\ last_return' = Return(op, port_name, result, events)

\* a new call reaches its first suspension point
Spawn(k) ==
    /\ tasks' = tasks (+) SetToBag({k})
    /\ last_return' = NoReturn

\* a call in flight reaches its next suspension point
Suspend(old, new) ==
    /\ tasks' = (tasks (-) SetToBag({old})) (+) SetToBag({new})
    /\ last_return' = NoReturn

\* TestStep: the fields the runner reads (expected_result None or {} is <<>>)
TestStep(action, data, expected_result) ==
    [action |-> action, data |-> data, expected_result |-> expected_result]

\* TestScenario: the fields the runner and the CLI read
TestScenario(id, category, tags, steps) ==
    [id |-> id, category |-> category, tags |-> tags, steps |-> steps]

\* TestResult as run_scenario builds it
TestResult(scenario_id, status) ==
    [scenario_id |-> scenario_id, status |-> status, step_results |-> <<>>,
     error_message |-> ""]

\* no run_scenario in progress; setup: how _setup_display ended, executed: the
\* _execute_step calls of the run, calls: the scenario ids of the calls made since
\* construction, cleared: how many of them precede the last clear_results
NoRun ==
    [pc |-> "idle", scenario |-> TestScenario("", "", {}, <<>>), config |-> NoConfig,
     index |-> 0, result |-> TestResult("", "pending"), setup |-> "none",
     executed |-> 0, calls |-> <<>>, cleared |-> 0]

NoBatch == [pc |-> "idle", scenarios |-> <<>>, config |-> NoConfig, next |-> 0]

\* ContinuousTestRunner.__init__
NoContinuous ==
    [is_running |-> FALSE, pc |-> "idle", cycles |-> 0, reports |-> <<>>,
     stopped |-> FALSE]

\* no subscriber of the command events; log: one entry per command accepted
\* after the subscription, with the statuses the command went through and the
\* command-completed / command-failed events emitted for it
NoCommands == [subscribed |-> FALSE, log |-> <<>>]

\* the CLI process before main parsed its arguments
NoCli ==
    [pc |-> "idle", selected |-> <<>>, report |-> [none |-> TRUE], exit_code |-> -1]

\* the clock before any send: elapsed is (end_time - start_time) * 1000 of the
\* send that measures next, measured the latencies of the successful sends
NoClock == [elapsed |-> 1, measured |-> <<>>]

\* ScenarioLoader.__init__, beside an empty directory
NoLoader ==
    [files |-> <<>>, saved |-> <<>>, scenarios |-> <<>>,
     last |-> [op |-> "none", path |-> "", raised |-> "", scenarios |-> <<>>]]

\* VirtualDisplayMainWindow with no display added and none selected
NoWindow ==
    [displays |-> <<>>, order |-> <<>>, current_display |-> "",
     panel |-> [port_name |-> "", connection_type |-> "Serie",
                display_lines |-> 1, line_length |-> 2],
     config_changed |-> 0]

\* SimpleVirtualDisplayGUI with no display created and no message file; date
\* is the time of the file system, mtime that of the file's last change
NoBridge ==
    [current_displays |-> <<>>, exists |-> FALSE, file |-> <<>>, mtime |-> 0,
     date |-> 1, last_message_mtime |-> 0, pc |-> "idle", content |-> <<>>,
     appended |-> <<>>, processed |-> <<>>,
     last |-> [port_name |-> "", message |-> <<>>, known |-> FALSE]]

\* MonitoringWidget with an empty communications table
NoMonitoring ==
    [rows |-> <<>>, added |-> 0,
     last |-> [time |-> 0, direction |-> "", status |-> ""]]

\* VirtualDisplayConsole at start: no display registered, and the two
\* module-level configurations as display_config.py builds them
NoConsole ==
    [displays |-> <<>>,
     DEFAULT_DISPLAY_CONFIG |-> VirtualDisplayConfig("COM1", "serial", 2, 3, {}, 0),
     DEFAULT_USB_CONFIG |-> VirtualDisplayConfig("USB1", "usb", 2, 3, {}, 0)]

\* no Scenario Validator call made yet
NoValidation ==
    [pc |-> "idle", content |-> <<>>, is_active |-> FALSE, expected |-> <<>>,
     evaluated |-> <<>>, result |-> [is_valid |-> TRUE, error |-> "", line |-> 0]]

\* SerialEmulator.__init__; the worker thread is started and has not run yet
Init ==
    /\ ports = <<>>
    /\ active_connections = <<>>
    /\ display_content = <<>>
    /\ message_queue = <<>>
    /\ is_processing = FALSE
    /\ event_handlers = <<>>
    /\ statistics = [total_messages |-> 0, successful_messages |-> 0,
                     failed_messages |-> 0, active_connections |-> 0,
                     average_latency |-> <<0, 1>>]
    /\ tasks = EmptyBag
    /\ worker = [pc |-> "start", command |-> NoCommand, tmp |-> 0, events |-> <<>>]
    /\ last_return = NoReturn
    /\ out_seqs = <<>>
    /\ destroyed = FALSE
    /\ call = NoCall
    /\ dispatch = NoDispatch
    /\ results = <<>>
    /\ run = NoRun
    /\ batch = NoBatch
    /\ continuous = NoContinuous
    /\ cli = NoCli
    /\ commands = NoCommands
    /\ validation = NoValidation
    /\ clock = NoClock
    /\ loader = NoLoader
    /\ loggers = <<>>
    /\ window = NoWindow
    /\ bridge = NoBridge
    /\ monitoring = NoMonitoring
    /\ console = NoConsole

-----------------------------------------------------------------------------
(* Emulation core: ports *)

\* the draws that tell the outcomes of a call apart: a configuration that
\* injects nothing takes the same path whatever random.random() returns
DrawsOf(config) ==
    IF config.simulated_failures = {} \/ config.error_rate = 0 THEN {0} ELSE Draws

\* SerialEmulator._should_simulate_failure; draw is random.random() * 100
_should_simulate_failure(config, failure_type, draw) ==
    IF failure_type \notin config.simulated_failures THEN FALSE
    ELSE draw < config.error_rate

\* the duplicate test left out
already_exists_unchecked(config) == FALSE

\* create_virtual_port: config.port_name in self.ports
already_exists(config) == config.port_name \in DOMAIN ports

\* create_virtual_port raises before it registers anything
create_raises(config) ==
    already_exists(config) \/ config.connection_type \notin Kinds

\* create_virtual_port up to its creation delay
create_virtual_port(config) ==
    /\ Free
    /\ IF create_raises(config)
       THEN /\ FinishAtOnce("create", config.port_name, "raised", <<>>)
            /\ UNCHANGED ports
       ELSE /\ ports' = assign(ports, config.port_name, NewPort(config.connection_type))
            /\ Spawn(Call("create", "created", config.port_name, NoConfig, <<>>, 0, <<>>))
    /\ UNCHANGED <<active_connections, display_content, message_queue, is_processing,
                   event_handlers, statistics, worker, out_seqs, destroyed, call, dispatch,
                   harness_vars>>

\* create_virtual_port after the delay: emit port-created, return True
create_virtual_port_created(k) ==
    /\ BagIn(k, tasks) /\ k.op = "create" /\ k.pc = "created"
    /\ Finish(k, "create", k.port_name, "ok",
              <<Event("port-created", k.port_name, statistics)>>)
    /\ UNCHANGED <<ports, active_connections, display_content, message_queue,
                   is_processing, event_handlers, statistics, worker, out_seqs,
                   destroyed, call, dispatch, harness_vars>>

\* open_port from the port lookup to the connection latency: the simulated
\* disconnect raises into the except branch (emit port-open-failed, re-raise)
open_check(config, d) == _should_simulate_failure(config, "disconnect", d)

\* the except branch re-raising without the event
open_failed_unannounced(port_name, events) ==
    Return("open", port_name, "raised", events)

\* open_port's except branch: emit port-open-failed, re-raise
open_failed(port_name, events) ==
    Return("open", port_name, "raised",
           Append(events, Event("port-open-failed", port_name, statistics)))

\* open_port: entry; a missing port is created from the config
open_port(port_name, config) ==
    /\ Free
    /\ Matches(port_name, config)
    /\ statistics.active_connections + InFlight("open") < MaxActive
    /\ IF port_name \notin DOMAIN ports
       THEN IF create_raises(config)
            THEN /\ tasks' = tasks
                 /\ last_return' = open_failed(port_name, <<>>)
                 /\ UNCHANGED ports
            ELSE /\ ports' = assign(ports, config.port_name,
                                    NewPort(config.connection_type))
                 /\ Spawn(Call("open", "created", port_name, config, <<>>, 0, <<>>))
       ELSE /\ \E d \in DrawsOf(config) :
                  IF open_check(config, d)
                  THEN /\ tasks' = tasks
                       /\ last_return' = open_failed(port_name, <<>>)
                  ELSE Spawn(Call("open", "latency", port_name, Settled(config),
                                  <<>>, 0, <<>>))
            /\ UNCHANGED ports
    /\ UNCHANGED <<active_connections, display_content, message_queue, is_processing,
                   event_handlers, statistics, worker, out_seqs, destroyed, call, dispatch,
                   harness_vars>>

\* open_port after the nested create_virtual_port returned (port-created emitted)
open_port_created(k) ==
    /\ BagIn(k, tasks) /\ k.op = "open" /\ k.pc = "created"
    /\ LET events == <<Event("port-created", k.port_name, statistics)>>
       IN  \E d \in DrawsOf(k.config) :
              IF open_check(k.config, d)
              THEN /\ tasks' = tasks (-) SetToBag({k})
                   /\ last_return' = open_failed(k.port_name, events)
              ELSE Suspend(k, [k EXCEPT !.pc = "latency", !.config = Settled(k.config),
                                        !.events = events])
    /\ UNCHANGED <<ports, active_connections, display_content, message_queue,
                   is_processing, event_handlers, statistics, worker, out_seqs,
                   destroyed, call, dispatch, harness_vars>>

\* the isinstance chain of open_port; NetworkDisplayMock.connect sets the flag
\* after its delay; no branch matches USBSerialDisplayMock
open_flags(port) ==
    CASE port.kind = "serial" -> [port EXCEPT !.is_open = TRUE]
      [] port.kind = "usb" -> [port EXCEPT !.is_connected = TRUE]
      [] port.kind = "network" -> [port EXCEPT !.is_connected = TRUE]
      [] OTHER -> port

\* open_port: record the connection, count it, emit port-opened, return True
open_finish(k) ==
    /\ ports' = [ports EXCEPT ![k.port_name] = open_flags(@)]
    /\ active_connections' =
          assign(active_connections, k.port_name, k.config.connection_type)
    /\ statistics' = [statistics EXCEPT !.active_connections = @ + 1]
    /\ Finish(k, "open", k.port_name, "ok",
              Append(k.events, Event("port-opened", k.port_name, statistics)))

\* open_port after the connection latency
open_port_latency(k) ==
    /\ BagIn(k, tasks) /\ k.op = "open" /\ k.pc = "latency"
    /\ IF ports[k.port_name].kind = "network"
       THEN /\ Suspend(k, [k EXCEPT !.pc = "connect"])
            /\ UNCHANGED <<ports, active_connections, statistics>>
       ELSE open_finish(k)
    /\ UNCHANGED <<display_content, message_queue, is_processing, event_handlers,
                   worker, out_seqs, destroyed, call, dispatch, harness_vars>>

\* open_port after NetworkDisplayMock.connect's delay
open_port_connect(k) ==
    /\ BagIn(k, tasks) /\ k.op = "open" /\ k.pc = "connect"
    /\ open_finish(k)
    /\ UNCHANGED <<display_content, message_queue, is_processing, event_handlers,
                   worker, out_seqs, destroyed, call, dispatch, harness_vars>>

\* the isinstance chain of close_port; no branch matches USBSerialDisplayMock
close_flags(port) ==
    CASE port.kind = "serial" -> [port EXCEPT !.is_open = FALSE]
      [] port.kind = "usb" -> [port EXCEPT !.is_connected = FALSE]
      [] port.kind = "network" -> [port EXCEPT !.is_connected = FALSE]
      [] OTHER -> port

\* close_port that counts a connection down whether or not one is recorded
close_counts_unrecorded(port_name) ==
    [statistics EXCEPT !.active_connections = @ - 1]

\* close_port: the active-connection counter after the call
close_counts(port_name) ==
    IF port_name \in DOMAIN active_connections
    THEN [statistics EXCEPT !.active_connections = @ - 1]
    ELSE statistics

\* close_port (it has no suspension point)
close_port(port_name) ==
    /\ Free
    /\ IF port_name \notin DOMAIN ports
       THEN /\ FinishAtOnce("close", port_name, "ok", <<>>)
            /\ UNCHANGED <<ports, active_connections, statistics>>
       ELSE /\ ports' = [ports EXCEPT ![port_name] = close_flags(@)]
            /\ active_connections' =
                  IF port_name \in DOMAIN active_connections
                  THEN remove(active_connections, port_name) ELSE active_connections
            /\ statistics' = close_counts(port_name)
            /\ FinishAtOnce("close", port_name, "ok",
                            <<Event("port-closed", port_name, statistics)>>)
    /\ UNCHANGED <<display_content, message_queue, is_processing, event_handlers,
                   worker, out_seqs, destroyed, call, dispatch, harness_vars>>

-----------------------------------------------------------------------------
(* Emulation core: send_message *)

\* send attempts started and not yet counted, with those counted
Attempts ==
    statistics.total_messages + InFlight("send") + Len(message_queue)
        + (IF worker.pc \in {"exec", "wr_total", "rd_failed", "wr_failed"} THEN 1 ELSE 0)

\* the except branch counting the failure only
failure_statistics_failed_only(st) ==
    [st EXCEPT !.failed_messages = @ + 1]

\* send_message's except branch: total and failed counters
failure_statistics(st) ==
    [st EXCEPT !.total_messages = @ + 1, !.failed_messages = @ + 1]

RECURSIVE gcd(_, _)
gcd(a, b) == IF b = 0 THEN a ELSE gcd(b, a % b)

\* the float num / den, in lowest terms
Fraction(num, den) ==
    LET g == gcd(num, den) IN IF g = 0 THEN <<0, 1>> ELSE <<num \div g, den \div g>>

\* the average taken over the previous average and the new latency alone
_update_average_latency_of_two(average, successful_messages, latency) ==
    IF successful_messages = 1 THEN Fraction(latency, 1)
    ELSE Fraction(average[1] + latency * average[2], average[2] * 2)

\* SerialEmulator._update_average_latency, called after successful_messages
\* was incremented: the new statistics['average_latency']
_update_average_latency(average, successful_messages, latency) ==
    IF successful_messages = 1 THEN Fraction(latency, 1)
    ELSE Fraction(average[1] * (successful_messages - 1) + latency * average[2],
                  average[2] * successful_messages)

\* the success branch counting the success only
success_statistics_uncounted(st) ==
    [st EXCEPT !.successful_messages = @ + 1]

\* send_message's success branch: total and successful counters
success_statistics(st) ==
    [st EXCEPT !.total_messages = @ + 1, !.successful_messages = @ + 1,
               !.average_latency =
                   _update_average_latency(@, st.successful_messages + 1, clock.elapsed)]

\* the clock after a successful send took its latency
measure(c) == [c EXCEPT !.measured = Append(@, c.elapsed)]

\* send_message's except branch: count, build the error record with sequence
\* number total_messages - 1, emit message-failed, re-raise
send_failed(port_name, events) ==
    LET st == failure_statistics(statistics)
    IN  /\ statistics' = st
        /\ out_seqs' = Append(out_seqs, st.total_messages - 1)
        /\ last_return' = Return("send", port_name, "raised",
                                 Append(events, Event("message-failed", port_name, st)))

\* send_message raises before its first suspension point
send_raises(port_name, config, d1, d2) ==
    \/ port_name \notin DOMAIN ports
    \/ _should_simulate_failure(config, "timeout", d1)
    \/ _should_simulate_failure(config, "corruption", d2)
    \/ ~CanSend(ports[port_name])

\* send_message: entry, up to the transmission delay of the variant's sender
send_message(port_name, message, config) ==
    /\ Free
    /\ Matches(port_name, config)
    /\ \E d1, d2 \in DrawsOf(config) :
          IF send_raises(port_name, config, d1, d2)
          THEN /\ send_failed(port_name, <<>>)
               /\ tasks' = tasks
          ELSE /\ Spawn(Call("send", "tx", port_name, Settled(config), message,
                             statistics.total_messages, <<>>))
               /\ UNCHANGED <<statistics, out_seqs>>
    /\ UNCHANGED <<ports, active_connections, display_content, message_queue,
                   is_processing, event_handlers, worker, destroyed, call, dispatch,
                   harness_vars>>

\* display-update emitted before the counters are updated
display_update_before_count(port_name, before, after) ==
    Event("display-update", port_name, before)

\* the display-update event of _process_display_message, emitted after
\* send_message updated the counters
display_update(port_name, before, after) ==
    Event("display-update", port_name, after)

\* send_message after the transmission delay: the variant's write, the
\* statistics, _process_display_message up to the acknowledgment delay
send_message_tx(k) ==
    /\ BagIn(k, tasks) /\ k.op = "send" /\ k.pc = "tx"
    /\ IF ~CanWrite(ports[k.port_name])
       THEN /\ send_failed(k.port_name, k.events)
            /\ tasks' = tasks (-) SetToBag({k})
            /\ UNCHANGED <<display_content, clock>>
       ELSE /\ statistics' = success_statistics(statistics)
            /\ clock' = measure(clock)
            /\ display_content' =
                  store(display_content, k.port_name, content_of(k.message, k.config))
            /\ Suspend(k, [k EXCEPT !.pc = "ack", !.events =
                  <<display_update(k.port_name, statistics, statistics')>>])
            /\ UNCHANGED out_seqs
    /\ UNCHANGED <<ports, active_connections, message_queue, is_processing,
                   event_handlers, worker, destroyed, call, dispatch, results,
                   run, batch, continuous, cli, commands, validation, app_vars>>

\* the events of a send once the acknowledgment delay is over:
\* message-received (ACK) from _process_display_message, then message-sent
ack_then_sent(k, st) ==
    k.events \o <<Event("message-received", k.port_name, st),
                  Event("message-sent", k.port_name, st)>>

\* send_message after the acknowledgment delay: ACK, message-sent, return
send_message_ack(k) ==
    /\ BagIn(k, tasks) /\ k.op = "send" /\ k.pc = "ack"
    /\ out_seqs' = Append(out_seqs, k.seq)
    /\ Finish(k, "send", k.port_name, "ok", ack_then_sent(k, statistics))
    /\ UNCHANGED <<ports, active_connections, display_content, message_queue,
                   is_processing, event_handlers, statistics, worker, destroyed,
                   call, dispatch, harness_vars>>

-----------------------------------------------------------------------------
(* Emulation core: command queue and background worker thread *)

\* the log of a subscriber after queue_command built a command: status pending
command_accepted(c, command_data) ==
    IF ~c.subscribed THEN c
    ELSE [c EXCEPT !.log = Append(@, [type |-> command_data.type,
                                      statuses |-> <<"pending">>, events |-> <<>>])]

\* _execute_command: status executing; a command that is not a write is then
\* completed and command-completed is emitted
command_executing(c, i, type) ==
    IF ~c.subscribed THEN c
    ELSE IF type = "write"
    THEN [c EXCEPT !.log[i].statuses = Append(@, "executing")]
    ELSE [c EXCEPT !.log[i].statuses = @ \o <<"executing", "completed">>,
                   !.log[i].events = Append(@, "command-completed")]

\* the except branch marking the command failed without emitting an event
command_failed_unreported(c, i) ==
    IF ~c.subscribed THEN c
    ELSE [c EXCEPT !.log[i].statuses = Append(@, "failed")]

\* the except branch of _execute_command: status failed, command-failed
command_failed(c, i) ==
    IF ~c.subscribed THEN c
    ELSE [c EXCEPT !.log[i].statuses = Append(@, "failed"),
                   !.log[i].events = Append(@, "command-failed")]

\* queue_command: build the command, put it on the queue, emit command-queued
queue_command(command_data) ==
    /\ Len(message_queue) < MaxQueue
    /\ Attempts < MaxMessages
    /\ message_queue' = Append(message_queue, command_data)
    /\ last_return' = Return("queue", command_data.port_name, "ok",
                             <<Event("command-queued", command_data.port_name, statistics)>>)
    /\ commands' = command_accepted(commands, command_data)
    /\ UNCHANGED <<ports, active_connections, display_content, is_processing,
                   event_handlers, statistics, tasks, worker, out_seqs, destroyed,
                   call, dispatch, results, run, batch,
                   continuous, cli, validation, clock, app_vars>>

\* process_messages, first statement of the thread: self.is_processing = True
process_messages_start ==
    /\ worker.pc = "start"
    /\ is_processing' = TRUE
    /\ worker' = [worker EXCEPT !.pc = "loop"]
    /\ UNCHANGED <<ports, active_connections, display_content, message_queue,
                   event_handlers, statistics, tasks, last_return, out_seqs, destroyed,
                   call, dispatch, harness_vars>>

\* process_messages: the while test
process_messages_loop ==
    /\ worker.pc = "loop"
    /\ worker' = [worker EXCEPT !.pc = IF is_processing THEN "poll" ELSE "exited",
                                !.events = <<>>]
    /\ UNCHANGED <<ports, active_connections, display_content, message_queue,
                   is_processing, event_handlers, statistics, tasks, last_return,
                   out_seqs, destroyed, call, dispatch, harness_vars>>

\* process_messages: the queue test and get_nowait, or the 50 ms sleep
process_messages_poll ==
    /\ worker.pc = "poll"
    /\ IF message_queue = <<>>
       THEN /\ worker' = [worker EXCEPT !.pc = "loop"]
            /\ UNCHANGED message_queue
       ELSE /\ worker' = [worker EXCEPT !.pc = "exec", !.command = Head(message_queue),
                                        !.events = <<>>]
            /\ message_queue' = Tail(message_queue)
    /\ UNCHANGED <<ports, active_connections, display_content, is_processing,
                   event_handlers, statistics, tasks, last_return, out_seqs, destroyed,
                   call, dispatch, harness_vars>>

\* _execute_command in a fresh event loop. A write calls send_message with
\* config None: the port lookup or the fault test raises, and the except branch
\* of send_message starts with the read of total_messages
_execute_command ==
    /\ worker.pc = "exec"
    /\ worker' =
          CASE worker.command.type = "clear" ->
                 [worker EXCEPT !.pc = "loop", !.command = NoCommand,
                                !.events = <<"display-clear", "command-completed">>]
            [] worker.command.type = "write" ->
                 [worker EXCEPT !.pc = "wr_total", !.tmp = statistics.total_messages]
            [] OTHER ->
                 [worker EXCEPT !.pc = "loop", !.command = NoCommand,
                                !.events = <<"command-completed">>]
    /\ commands' = command_executing(commands, Len(commands.log) - Len(message_queue),
                                     worker.command.type)
    /\ UNCHANGED <<ports, active_connections, display_content, message_queue,
                   is_processing, event_handlers, statistics, tasks, last_return,
                   out_seqs, destroyed, call, dispatch, results, run, batch,
                   continuous, cli, validation, clock, app_vars>>

\* the worker's write of total_messages (+= is a read and a write)
worker_write_total ==
    /\ worker.pc = "wr_total"
    /\ statistics' = [statistics EXCEPT !.total_messages = worker.tmp + 1]
    /\ worker' = [worker EXCEPT !.pc = "rd_failed", !.tmp = 0]
    /\ UNCHANGED <<ports, active_connections, display_content, message_queue,
                   is_processing, event_handlers, tasks, last_return, out_seqs,
                   destroyed, call, dispatch, harness_vars>>

\* the worker's read of failed_messages
worker_read_failed ==
    /\ worker.pc = "rd_failed"
    /\ worker' = [worker EXCEPT !.pc = "wr_failed", !.tmp = statistics.failed_messages]
    /\ UNCHANGED <<ports, active_connections, display_content, message_queue,
                   is_processing, event_handlers, statistics, tasks, last_return,
                   out_seqs, destroyed, call, dispatch, harness_vars>>

\* the worker's write of failed_messages, the error record, message-failed,
\* and _execute_command's except branch: command-failed
worker_write_failed ==
    /\ worker.pc = "wr_failed"
    /\ statistics' = [statistics EXCEPT !.failed_messages = worker.tmp + 1]
    /\ out_seqs' = Append(out_seqs, statistics.total_messages - 1)
    /\ worker' = [worker EXCEPT !.pc = "loop", !.command = NoCommand, !.tmp = 0,
                                !.events = <<"message-failed", "command-failed">>]
    /\ commands' = command_failed(commands, Len(commands.log) - Len(message_queue))
    /\ UNCHANGED <<ports, active_connections, display_content, message_queue,
                   is_processing, event_handlers, tasks, last_return, destroyed,
                   call, dispatch, results, run, batch,
                   continuous, cli, validation, clock, app_vars>>

\* a caller registers its handlers for the command events before it queues
\* the first command
subscribe ==
    /\ ~commands.subscribed
    /\ message_queue = <<>> /\ worker.command = NoCommand
    /\ commands' = [commands EXCEPT !.subscribed = TRUE]
    /\ UNCHANGED <<ports, active_connections, display_content, message_queue,
                   is_processing, event_handlers, statistics, tasks, worker,
                   last_return, out_seqs, destroyed, call, dispatch, results, run,
                   batch, continuous, cli, validation, clock, app_vars>>

-----------------------------------------------------------------------------
(* Emulation core: destroy *)

\* the port-closed events of destroy's close_port calls
RECURSIVE port_closed_events(_)
port_closed_events(names) ==
    IF names = {} THEN <<>>
    ELSE LET n == CHOOSE x \in names : TRUE
         IN  <<Event("port-closed", n, statistics)>> \o port_closed_events(names \ {n})

\* destroy, called with no other call in flight. in_loop: the caller is a
\* coroutine of a running event loop, where asyncio.run raises RuntimeError
destroy(in_loop) ==
    /\ tasks = EmptyBag
    /\ is_processing' = FALSE
    /\ destroyed' = TRUE
    /\ IF in_loop /\ DOMAIN active_connections # {}
       THEN /\ last_return' = Return("destroy", "", "raised", <<>>)
            /\ UNCHANGED <<ports, active_connections, statistics, message_queue,
                           event_handlers, display_content>>
       ELSE /\ ports' = <<>>
            /\ active_connections' = <<>>
            /\ statistics' = [statistics EXCEPT !.active_connections =
                                 @ - Cardinality(DOMAIN active_connections)]
            /\ message_queue' = <<>>
            /\ event_handlers' = <<>>
            /\ display_content' = <<>>
            /\ last_return' = Return("destroy", "", "ok",
                                     port_closed_events(DOMAIN active_connections))
    /\ UNCHANGED <<tasks, worker, out_seqs, call, dispatch, harness_vars>>

-----------------------------------------------------------------------------
(* Event bus *)

Events == {"display-update", "message-sent"}

Handlers == {"h1", "h2", "h_raise"}

\* the handlers that raise an Exception when called
FaultyHandlers == {"h_raise"}

\* number of registrations, all events together
Registered ==
    LET RECURSIVE sum(_)
        sum(es) == IF es = {} THEN 0
                   ELSE LET e == CHOOSE x \in es : TRUE
                        IN  Len(event_handlers[e]) + sum(es \ {e})
    IN  sum(DOMAIN event_handlers)

\* on: append the handler to the event's list, created if missing
on(event, handler) ==
    /\ event_handlers' =
          assign(event_handlers, event,
                 Append(IF event \in DOMAIN event_handlers
                        THEN event_handlers[event] ELSE <<>>, handler))
    /\ dispatch' = NoDispatch
    /\ last_return' = NoReturn
    /\ UNCHANGED <<ports, active_connections, display_content, message_queue,
                   is_processing, statistics, tasks, worker, out_seqs, destroyed, call,
                   harness_vars>>

\* list.remove(x): the first occurrence removed
list_remove(l, x) ==
    LET i == CHOOSE j \in 1..Len(l) : l[j] = x /\ \A m \in 1..(j - 1) : l[m] # x
    IN  SubSeq(l, 1, i - 1) \o SubSeq(l, i + 1, Len(l))

\* off: remove the handler if the event has it
off(event, handler) ==
    /\ event_handlers' =
          IF event \in DOMAIN event_handlers
             /\ \E i \in 1..Len(event_handlers[event]) : event_handlers[event][i] = handler
          THEN [event_handlers EXCEPT ![event] = list_remove(@, handler)]
          ELSE event_handlers
    /\ dispatch' = NoDispatch
    /\ last_return' = NoReturn
    /\ UNCHANGED <<ports, active_connections, display_content, message_queue,
                   is_processing, statistics, tasks, worker, out_seqs, destroyed, call,
                   harness_vars>>

\* the loop of emit with the try around the whole loop: the first exception ends it
RECURSIVE run_handlers_try_outside(_, _)
run_handlers_try_outside(hs, d) ==
    IF hs = <<>> THEN d
    ELSE IF Head(hs) \in FaultyHandlers
         THEN [d EXCEPT !.invoked = Append(d.invoked, Head(hs))]
         ELSE run_handlers_try_outside(Tail(hs),
                                       [d EXCEPT !.invoked = Append(d.invoked, Head(hs))])

\* the loop of emit: each handler called inside its own try, the exception logged
RECURSIVE run_handlers(_, _)
run_handlers(hs, d) ==
    IF hs = <<>> THEN d
    ELSE run_handlers(Tail(hs), [d EXCEPT !.invoked = Append(d.invoked, Head(hs))])

\* emit
emit(event) ==
    /\ dispatch' =
          IF event \in DOMAIN event_handlers
          THEN run_handlers(event_handlers[event],
                            [event |-> event, invoked |-> <<>>, raised |-> FALSE])
          ELSE [event |-> event, invoked |-> <<>>, raised |-> FALSE]
    /\ UNCHANGED <<emu_vars, call, harness_vars>>

-----------------------------------------------------------------------------
(* Display-content processing as a call of its own *)

\* the content map before the call; call.prior keeps it for comparison
PriorContents ==
    {<<>>, ("COM1" :> <<<<"x">>, <<"y", "z">>>>), ("USB1" :> <<<<"x">>>>)}

\* the messages of the calls: every short text, "clear" in every letter case,
\* and "clear" followed by more text
ContentMessages ==
    StringsUpTo({"a", " ", NL}, MaxMsgLen) \cup ClearSpellings
        \cup {s \o <<"x">> : s \in ClearSpellings} \cup {<<"x">> \o clear_word}

\* display geometries: display_lines Literal[1..4], line_length a small width
ContentConfigs ==
    {VirtualDisplayConfig("COM1", "serial", dl, ll, {}, 0) :
        dl \in DisplayLines, ll \in 0..MaxLineLen}

\* _process_display_message up to the store and the display-update event
_process_display_message ==
    /\ call.pc = "ready"
    /\ display_content' =
          store(display_content, call.port_name, content_of(call.message, call.config))
    /\ call' = [call EXCEPT !.pc = "done"]
    /\ UNCHANGED <<ports, active_connections, message_queue, is_processing,
                   event_handlers, statistics, tasks, worker, last_return, out_seqs,
                   destroyed, dispatch, harness_vars>>

-----------------------------------------------------------------------------
(* Test harness: TestRunner *)

Text == <<"h", "i">>

\* the scenarios a scenario file gives, in file order
ScenarioList ==
    LET send == TestStep("send", Text, <<>>)
        send_nothing == TestStep("send", <<>>, <<>>)
        clear == TestStep("clear", <<>>, <<>>)
        wait == TestStep("wait", <<>>, <<>>)
        validate == TestStep("validate", <<>>, <<>>)
        connect == TestStep("connect", <<>>, <<>>)
        unmet == <<[name |-> "content_match", value |-> <<"n", "o">>]>>
        clear_expecting == TestStep("clear", <<>>, unmet)
        wait_expecting == TestStep("wait", <<>>, unmet)
        send_expecting == TestStep("send", Text, unmet)
    IN  << TestScenario("three_sends", "basic", {"basic", "display"},
                        <<send, send, send>>),
           TestScenario("send_validate_send", "functional", {"validation", "display"},
                        <<send, validate, send>>),
           TestScenario("clear_wait_send", "basic", {"basic", "display"},
                        <<clear_expecting, wait_expecting, send_expecting>>),
           TestScenario("send_nothing", "error_handling", {"display"},
                        <<send, send_nothing, send>>),
           TestScenario("connect", "integration", {}, <<wait, connect>>),
           TestScenario("no_steps", "basic", {"display"}, <<>>) >>

\* the scenarios a caller of the runner passes
Scenarios == {ScenarioList[i] : i \in 1..Len(ScenarioList)}

\* the configurations a caller of the runner passes
RunnerConfigs ==
    {VirtualDisplayConfig("COM1", "serial", 2, 3, f[1], f[2]) : f \in FaultProfiles}
        \cup {VirtualDisplayConfig("COM1", "bluetooth", 2, 3, {}, 0)}

\* the public methods of SerialEmulator
SerialEmulatorMethods ==
    {"on", "off", "emit", "create_virtual_port", "open_port", "close_port",
     "send_message", "queue_command", "get_statistics", "get_port_status",
     "list_ports", "reset_port", "destroy", "get_display_content"}

\* await serial_emulator.open_port(port_name, config) from the only coroutine
\* of the event loop: the call from entry to return or raise
await_open_port(port_name, config) ==
    LET missing == port_name \notin DOMAIN ports
        created == IF missing /\ ~create_raises(config)
                   THEN assign(ports, config.port_name, NewPort(config.connection_type))
                   ELSE ports
        events == IF missing /\ ~create_raises(config)
                  THEN <<Event("port-created", port_name, statistics)>> ELSE <<>>
    IN  IF missing /\ create_raises(config)
        THEN /\ last_return' = open_failed(port_name, <<>>)
             /\ UNCHANGED <<ports, active_connections, statistics>>
        ELSE \E d \in Draws :
                IF open_check(config, d)
                THEN /\ ports' = created
                     /\ last_return' = open_failed(port_name, events)
                     /\ UNCHANGED <<active_connections, statistics>>
                ELSE /\ ports' = [created EXCEPT ![port_name] = open_flags(@)]
                     /\ active_connections' =
                           assign(active_connections, port_name, config.connection_type)
                     /\ statistics' = [statistics EXCEPT !.active_connections = @ + 1]
                     /\ last_return' =
                           Return("open", port_name, "ok",
                                  Append(events, Event("port-opened", port_name, statistics)))

\* str(e) of the exception send_message re-raises
send_error(port_name, config, d1, d2) ==
    IF port_name \notin DOMAIN ports THEN "Port not found"
    ELSE IF _should_simulate_failure(config, "timeout", d1) THEN "Simulated timeout"
    ELSE IF _should_simulate_failure(config, "corruption", d2)
         THEN "Simulated data corruption"
    ELSE IF ~CanSend(ports[port_name]) THEN "Port not open"
    ELSE IF ~CanWrite(ports[port_name]) THEN "Write failed"
    ELSE ""

\* await serial_emulator.send_message(port_name, message, config) from the only
\* coroutine of the event loop: the call from entry to return or raise
await_send_message(port_name, message, config, d1, d2) ==
    IF send_error(port_name, config, d1, d2) # ""
    THEN /\ send_failed(port_name, <<>>)
         /\ UNCHANGED <<display_content, clock>>
    ELSE LET st == success_statistics(statistics)
             k == Call("send", "ack", port_name, Settled(config), message,
                       statistics.total_messages,
                       <<display_update(port_name, statistics, st)>>)
         IN  /\ statistics' = st
             /\ clock' = measure(clock)
             /\ display_content' =
                   store(display_content, port_name, content_of(message, config))
             /\ out_seqs' = Append(out_seqs, k.seq)
             /\ last_return' = Return("send", port_name, "ok", ack_then_sent(k, st))

\* cleanup placed after the try statement's normal exit only
runs_cleanup_on_pass(status) == status = "passed"

\* the finally clause of run_scenario: cleanup runs whatever the status
runs_cleanup(status) == TRUE

\* await serial_emulator.close_port(port_name): it has no suspension point
await_close_port(port_name) ==
    IF port_name \notin DOMAIN ports
    THEN /\ last_return' = Return("close", port_name, "ok", <<>>)
         /\ UNCHANGED <<ports, active_connections, statistics>>
    ELSE /\ ports' = [ports EXCEPT ![port_name] = close_flags(@)]
         /\ active_connections' =
               IF port_name \in DOMAIN active_connections
               THEN remove(active_connections, port_name) ELSE active_connections
         /\ statistics' = close_counts(port_name)
         /\ last_return' = Return("close", port_name, "ok",
                                  <<Event("port-closed", port_name, statistics)>>)

\* a step that declares an expected result never reported as passed
StepOutcome_expecting(step, success, error_message) ==
    [action |-> step.action, success |-> success /\ step.expected_result = <<>>,
     error_message |-> error_message]

\* the dictionary _execute_step returns
StepOutcome(step, success, error_message) ==
    [action |-> step.action, success |-> success, error_message |-> error_message]

\* the loop of run_scenario going on after a failed step
after_step_no_break(frame, outcome) ==
    LET recorded == [frame EXCEPT !.result.step_results = Append(@, outcome),
                                  !.executed = @ + 1]
        failed == IF outcome.success THEN recorded
                  ELSE [recorded EXCEPT !.result.status = "failed",
                                        !.result.error_message = outcome.error_message]
    IN  IF frame.index < Len(frame.scenario.steps)
        THEN [failed EXCEPT !.index = @ + 1]
        ELSE [failed EXCEPT !.pc = "cleanup",
                            !.result.status =
                                IF @ = "running" THEN "passed" ELSE @]

\* run_scenario's loop body once _execute_step returned: record the outcome;
\* on failure mark the result and break; after the last step a result still
\* running is passed
after_step(frame, outcome) ==
    LET recorded == [frame EXCEPT !.result.step_results = Append(@, outcome),
                                  !.executed = @ + 1]
    IN  IF ~outcome.success
        THEN [recorded EXCEPT !.pc = "cleanup", !.result.status = "failed",
                              !.result.error_message = outcome.error_message]
        ELSE IF frame.index < Len(frame.scenario.steps)
        THEN [recorded EXCEPT !.index = @ + 1]
        ELSE [recorded EXCEPT !.pc = "cleanup", !.result.status = "passed"]

\* run_scenario from its call to the end of _setup_display; an exception of
\* open_port is re-raised by _setup_display into run_scenario's except clause
run_scenario(scenario, config) ==
    /\ run.pc = "idle"
    /\ await_open_port(config.port_name, config)
    /\ LET frame == [run EXCEPT !.scenario = scenario, !.config = config, !.index = 1,
                                !.result = TestResult(scenario.id, "running"),
                                !.executed = 0, !.calls = Append(@, scenario.id)]
       IN  run' =
              IF last_return'.result = "raised"
              THEN [frame EXCEPT !.pc = "cleanup", !.setup = "raised",
                                 !.result.status = "failed",
                                 !.result.error_message = "open_port raised"]
              ELSE IF scenario.steps = <<>>
              THEN [frame EXCEPT !.pc = "cleanup", !.setup = "ok",
                                 !.result.status = "passed"]
              ELSE [frame EXCEPT !.pc = "step", !.setup = "ok"]
    /\ UNCHANGED <<display_content, message_queue, is_processing, event_handlers,
                   tasks, worker, out_seqs, destroyed, call, dispatch, results,
                   continuous, cli, commands,
                   validation, clock, app_vars>>

\* _execute_step from the runner's loop: one step and the loop body after it
_execute_step ==
    /\ run.pc = "step"
    /\ LET step == run.scenario.steps[run.index]
           port_name == run.config.port_name
       IN  IF step.action \in {"send", "clear"} /\ (step.action = "clear" \/ step.data # <<>>)
           THEN \E d1, d2 \in Draws :
                   /\ await_send_message(port_name,
                                         IF step.action = "clear" THEN <<>> ELSE step.data,
                                         run.config, d1, d2)
                   /\ run' = after_step(run,
                          StepOutcome(step, send_error(port_name, run.config, d1, d2) = "",
                                      send_error(port_name, run.config, d1, d2)))
           ELSE /\ run' = after_step(run,
                      CASE step.action = "send" ->
                               StepOutcome(step, FALSE, "Send step requires data")
                        [] step.action = "wait" -> StepOutcome(step, TRUE, "")
                        [] step.action = "validate" ->
                               IF "get_display_state" \in SerialEmulatorMethods
                               THEN StepOutcome(step, TRUE, "")
                               ELSE StepOutcome(step, FALSE,
                                                "no attribute get_display_state")
                        [] OTHER -> StepOutcome(step, FALSE, "Unknown test action"))
                /\ last_return' = NoReturn
                /\ UNCHANGED <<statistics, display_content, out_seqs, clock>>
    /\ UNCHANGED <<ports, active_connections, message_queue, is_processing,
                   event_handlers, tasks, worker, destroyed, call, dispatch, results,
                   batch, continuous, cli, commands, validation, app_vars>>

\* the result list holding the last result only
replaced(rs, result) == <<result>>

\* self.results.append(result)
appended(rs, result) == Append(rs, result)

\* run_scenario's finally clause, self.results.append(result) and the return
_cleanup_display ==
    /\ run.pc = "cleanup"
    /\ IF runs_cleanup(run.result.status)
       THEN await_close_port(run.config.port_name)
       ELSE /\ last_return' = NoReturn
            /\ UNCHANGED <<ports, active_connections, statistics>>
    /\ results' = appended(results, run.result)
    /\ run' = [run EXCEPT !.pc = "idle"]
    /\ UNCHANGED <<display_content, message_queue, is_processing, event_handlers,
                   tasks, worker, out_seqs, destroyed, call, dispatch, batch,
                   continuous, cli, commands,
                   validation, clock, app_vars>>

\* clear_results: self.results.clear()
clear_results ==
    /\ run.pc = "idle"
    /\ results # <<>>
    /\ results' = <<>>
    /\ run' = [run EXCEPT !.cleared = Len(run.calls)]
    /\ last_return' = NoReturn
    /\ UNCHANGED <<ports, active_connections, display_content, message_queue,
                   is_processing, event_handlers, statistics, tasks, worker, out_seqs,
                   destroyed, call, dispatch, batch, continuous, cli, commands,
                   validation, clock, app_vars>>

\* generate_report returning a summary of zeros when there are no results
generate_report_empty_summary(rs) ==
    LET count(status) == Cardinality({i \in 1..Len(rs) : rs[i].status = status})
    IN  [summary |->
            [total_tests |-> Len(rs), passed_tests |-> count("passed"),
             failed_tests |-> count("failed"),
             success_rate |-> IF Len(rs) > 0 THEN <<count("passed") * 100, Len(rs)>>
                              ELSE <<0, 1>>],
         results |-> [i \in 1..Len(rs) |-> rs[i].scenario_id]]

\* generate_report with the rate taken over the failed results
generate_report_failed_rate(rs) ==
    LET count(status) == Cardinality({i \in 1..Len(rs) : rs[i].status = status})
    IN  IF rs = <<>> THEN [error |-> "No test results available"]
        ELSE [summary |->
                 [total_tests |-> Len(rs), passed_tests |-> count("passed"),
                  failed_tests |-> count("failed"),
                  success_rate |-> <<count("failed") * 100, Len(rs)>>],
              results |-> [i \in 1..Len(rs) |-> rs[i].scenario_id]]

\* generate_report: the dictionary returned for self.results = rs; the
\* quotient (passed_tests / total_tests) * 100 is kept as the pair
\* <<numerator, denominator>>; of each result entry the scenario id is kept
generate_report(rs) ==
    LET count(status) == Cardinality({i \in 1..Len(rs) : rs[i].status = status})
    IN  IF rs = <<>> THEN [error |-> "No test results available"]
        ELSE [summary |->
                 [total_tests |-> Len(rs), passed_tests |-> count("passed"),
                  failed_tests |-> count("failed"),
                  success_rate |-> IF Len(rs) > 0
                                   THEN <<count("passed") * 100, Len(rs)>>
                                   ELSE <<0, 1>>],
              results |-> [i \in 1..Len(rs) |-> rs[i].scenario_id]]

\* run_scenarios: the loop runs the next scenario of the list
run_scenarios_next ==
    /\ batch.pc = "running"
    /\ batch.next <= Len(batch.scenarios)
    /\ run_scenario(batch.scenarios[batch.next], batch.config)
    /\ batch' = [batch EXCEPT !.next = @ + 1]

\* run_scenarios has run every scenario of its list and returns
run_scenarios_returns ==
    /\ batch.pc = "running"
    /\ batch.next > Len(batch.scenarios)
    /\ run.pc = "idle"

-----------------------------------------------------------------------------
(* Test harness: command line *)

\* the arguments of the run command: tags and category filters ("" when the
\* option is absent), connection type (serial when absent)
CliArgs ==
    [tags : {{}, {"basic"}, {"display"}, {"validation", "usb"}, {"usb"}},
     category : {"", "basic", "functional", "stress"},
     connection_type : {"serial", "usb", "network"},
     loaded : {ScenarioList, <<>>}]

\* run_tests: the tag filter, then the category filter
selected_scenarios(args) ==
    LET has_tag(s) == args.tags \cap s.tags # {}
        in_category(s) == s.category = args.category
        by_tags == IF args.tags # {} THEN SelectSeq(args.loaded, has_tag) ELSE args.loaded
    IN  IF args.category # "" THEN SelectSeq(by_tags, in_category) ELSE by_tags

\* main and run_tests up to the call of run_scenarios (single-run mode)
run_tests(args) ==
    /\ cli.pc = "idle"
    /\ IF args.loaded = <<>>
       THEN /\ cli' = [cli EXCEPT !.pc = "exited", !.exit_code = 1]
            /\ UNCHANGED batch
       ELSE /\ cli' = [cli EXCEPT !.pc = "running",
                                  !.selected = selected_scenarios(args)]
            /\ batch' = [pc |-> "running", scenarios |-> selected_scenarios(args),
                         config |-> VirtualDisplayConfig("COM_TEST", args.connection_type,
                                                         2, 20, {}, 0),
                         next |-> 1]
    /\ last_return' = NoReturn
    /\ UNCHANGED <<ports, active_connections, display_content, message_queue,
                   is_processing, event_handlers, statistics, tasks, worker, out_seqs,
                   destroyed, call, dispatch, results, run, continuous,
                   commands, validation, clock, app_vars>>

\* run_tests after run_scenarios returned: the report, the summary and the
\* exit code; main turns an exception of run_tests into exit code 1
run_tests_report ==
    /\ cli.pc = "running"
    /\ run_scenarios_returns
    /\ LET report == generate_report(results)
       IN  cli' = [cli EXCEPT !.pc = "exited", !.report = report,
                              !.exit_code =
                                 IF "summary" \notin DOMAIN report THEN 1
                                 ELSE IF report.summary.failed_tests = 0 THEN 0 ELSE 1]
    /\ batch' = [batch EXCEPT !.pc = "idle"]
    /\ last_return' = NoReturn
    /\ UNCHANGED <<ports, active_connections, display_content, message_queue,
                   is_processing, event_handlers, statistics, tasks, worker, out_seqs,
                   destroyed, call, dispatch, results, run, continuous,
                   commands, validation, clock, app_vars>>

-----------------------------------------------------------------------------
(* Test harness: ContinuousTestRunner *)

\* the scenario lists passed to run_continuous_tests
ContinuousLists ==
    { <<ScenarioList[1]>>, <<ScenarioList[4], ScenarioList[6]>>, <<>> }

\* the loop going on whatever the flag
loop_forever(c) == TRUE

\* while self.is_running
loop_continues(c) == c.is_running

\* run_continuous_tests: entry; the arguments are kept in the frame of
\* run_scenarios
run_continuous_tests(scenarios, config) ==
    /\ continuous.pc = "idle"
    /\ continuous' = [continuous EXCEPT !.is_running = TRUE, !.pc = "loop"]
    /\ batch' = [pc |-> "idle", scenarios |-> scenarios, config |-> config, next |-> 0]
    /\ last_return' = NoReturn
    /\ UNCHANGED <<ports, active_connections, display_content, message_queue,
                   is_processing, event_handlers, statistics, tasks, worker, out_seqs,
                   destroyed, call, dispatch, results, run, cli, commands,
                   validation, clock, app_vars>>

\* the loop test of run_continuous_tests: a new cycle calls run_scenarios, a
\* flag that is down ends the coroutine
continuous_loop ==
    /\ continuous.pc = "loop"
    /\ IF loop_continues(continuous)
       THEN /\ continuous.cycles < MaxCycles
            /\ continuous' = [continuous EXCEPT !.pc = "cycle", !.cycles = @ + 1]
            /\ batch' = [batch EXCEPT !.pc = "running", !.next = 1]
       ELSE /\ continuous' = [continuous EXCEPT !.pc = "returned"]
            /\ UNCHANGED batch
    /\ last_return' = NoReturn
    /\ UNCHANGED <<ports, active_connections, display_content, message_queue,
                   is_processing, event_handlers, statistics, tasks, worker, out_seqs,
                   destroyed, call, dispatch, results, run, cli, commands,
                   validation, clock, app_vars>>

\* run_continuous_tests after run_scenarios returned: generate_report with a
\* path, then the interval sleep if the flag is still up; an exception of the
\* file write goes to the except clause and its one-minute sleep
continuous_report ==
    /\ continuous.pc = "cycle"
    /\ run_scenarios_returns
    /\ LET report == generate_report(results)
       IN  \E written \in BOOLEAN :
              continuous' =
                 IF "summary" \notin DOMAIN report
                 THEN [continuous EXCEPT !.pc = IF continuous.is_running
                                                THEN "sleep" ELSE "loop"]
                 ELSE IF written
                 THEN [continuous EXCEPT
                          !.pc = IF continuous.is_running THEN "sleep" ELSE "loop",
                          !.reports = Append(@, [cycle |-> continuous.cycles,
                                                 cleared |-> run.cleared,
                                                 results |-> report.results])]
                 ELSE [continuous EXCEPT !.pc = "retry"]
    /\ batch' = [batch EXCEPT !.pc = "idle"]
    /\ last_return' = NoReturn
    /\ UNCHANGED <<ports, active_connections, display_content, message_queue,
                   is_processing, event_handlers, statistics, tasks, worker, out_seqs,
                   destroyed, call, dispatch, results, run, cli, commands,
                   validation, clock, app_vars>>

\* the interval sleep or the retry sleep is over
continuous_wake ==
    /\ continuous.pc \in {"sleep", "retry"}
    /\ continuous' = [continuous EXCEPT !.pc = "loop"]
    /\ last_return' = NoReturn
    /\ UNCHANGED <<ports, active_connections, display_content, message_queue,
                   is_processing, event_handlers, statistics, tasks, worker, out_seqs,
                   destroyed, call, dispatch, results, run, batch, cli, commands,
                   validation, clock, app_vars>>

\* ContinuousTestRunner.stop, called while run_continuous_tests is suspended
stop ==
    /\ continuous.pc \notin {"idle", "returned"}
    /\ ~continuous.stopped
    /\ continuous' = [continuous EXCEPT !.is_running = FALSE, !.stopped = TRUE]
    /\ last_return' = NoReturn
    /\ UNCHANGED <<ports, active_connections, display_content, message_queue,
                   is_processing, event_handlers, statistics, tasks, worker, out_seqs,
                   destroyed, call, dispatch, results, run, batch, cli, commands,
                   validation, clock, app_vars>>

-----------------------------------------------------------------------------
(* Test harness: ScenarioValidator *)

\* ValidationResult: error_message by its fixed part, and the line number it
\* names, 0 when it names none
ValidationResult(is_valid, error, line) ==
    [is_valid |-> is_valid, error |-> error, line |-> line]

\* a rule value of an expectation map, by Python type: str, list of str, int
RuleValue(kind, text, lines, n) ==
    [kind |-> kind, text |-> text, lines |-> lines, n |-> n]

\* the keys of self.validation_rules
RuleNames ==
    {"content_match", "line_count", "character_count", "response_time", "status",
     "regex_match", "not_empty", "is_empty"}

\* "\n".join(lines)
RECURSIVE join(_)
join(lines) ==
    IF lines = <<>> THEN <<>>
    ELSE IF Len(lines) = 1 THEN lines[1]
    ELSE lines[1] \o <<NL>> \o join(Tail(lines))

\* re.search(pattern, text) for a pattern of literal characters
search(pattern, text) ==
    \E i \in 0..(Len(text) - Len(pattern)) :
        SubSeq(text, i + 1, i + Len(pattern)) = pattern

\* the line number counted from 0, as enumerate gives it
reported_line_from_zero(i) == i

\* the line number of the mismatch message: i + 1 for the index i of enumerate
reported_line(i) == i + 1

\* _validate_content_match
_validate_content_match(display, expected_content) ==
    IF expected_content.kind = "str"
    THEN IF strip(join(display.content)) # expected_content.text
         THEN ValidationResult(FALSE, "Content mismatch", 0)
         ELSE ValidationResult(TRUE, "", 0)
    ELSE IF expected_content.kind = "list"
    THEN IF Len(display.content) # Len(expected_content.lines)
         THEN ValidationResult(FALSE, "Line count mismatch", 0)
         ELSE LET mismatches == {i \in 0..(Len(display.content) - 1) :
                                    strip(display.content[i + 1]) #
                                        expected_content.lines[i + 1]}
              IN  IF mismatches = {} THEN ValidationResult(TRUE, "", 0)
                  ELSE ValidationResult(FALSE, "Line mismatch",
                          reported_line(CHOOSE i \in mismatches :
                                           \A j \in mismatches : i <= j))
    ELSE ValidationResult(TRUE, "", 0)

\* _validate_not_empty: not any(line.strip() for line in current_content)
_validate_not_empty(display) ==
    IF ~\E i \in 1..Len(display.content) : strip(display.content[i]) # <<>>
    THEN ValidationResult(FALSE, "Expected display to have content", 0)
    ELSE ValidationResult(TRUE, "", 0)

\* the emptiness test on the lines as they are, not trimmed
_validate_is_empty_untrimmed(display) ==
    IF \E i \in 1..Len(display.content) : display.content[i] # <<>>
    THEN ValidationResult(FALSE, "Expected display to be empty", 0)
    ELSE ValidationResult(TRUE, "", 0)

\* _validate_is_empty: any(line.strip() for line in current_content)
_validate_is_empty(display) ==
    IF \E i \in 1..Len(display.content) : strip(display.content[i]) # <<>>
    THEN ValidationResult(FALSE, "Expected display to be empty", 0)
    ELSE ValidationResult(TRUE, "", 0)

\* the validator self.validation_rules[rule_name] applied to the display
validator(rule_name, display, rule_value) ==
    LET content == display.content
        filled == {i \in 1..Len(content) : strip(content[i]) # <<>>}
        characters == Len(join(content)) - (IF content = <<>> THEN 0 ELSE Len(content) - 1)
    IN  CASE rule_name = "content_match" -> _validate_content_match(display, rule_value)
          [] rule_name = "line_count" ->
                IF Cardinality(filled) # rule_value.n
                THEN ValidationResult(FALSE, "Line count mismatch", 0)
                ELSE ValidationResult(TRUE, "", 0)
          [] rule_name = "character_count" ->
                IF characters # rule_value.n
                THEN ValidationResult(FALSE, "Character count mismatch", 0)
                ELSE ValidationResult(TRUE, "", 0)
          [] rule_name = "response_time" -> ValidationResult(TRUE, "", 0)
          [] rule_name = "status" ->
                IF rule_value.text = <<"a", "c", "t", "i", "v", "e">> /\ ~display.is_active
                THEN ValidationResult(FALSE, "Expected display to be active", 0)
                ELSE IF rule_value.text = <<"i", "n", "a", "c", "t", "i", "v", "e">>
                        /\ display.is_active
                THEN ValidationResult(FALSE, "Expected display to be inactive", 0)
                ELSE ValidationResult(TRUE, "", 0)
          [] rule_name = "regex_match" ->
                IF \E i \in 1..Len(rule_value.text) : rule_value.text[i] = "("
                THEN ValidationResult(FALSE, "Invalid regex pattern", 0)
                ELSE IF ~search(rule_value.text, join(content))
                THEN ValidationResult(FALSE, "Content does not match pattern", 0)
                ELSE ValidationResult(TRUE, "", 0)
          [] rule_name = "not_empty" -> _validate_not_empty(display)
          [] rule_name = "is_empty" -> _validate_is_empty(display)

\* the loop going past a rule name that is not known
RECURSIVE validate_rules_skipping_unknown(_, _, _)
validate_rules_skipping_unknown(display, expected, evaluated) ==
    IF expected = <<>>
    THEN [result |-> ValidationResult(TRUE, "", 0), evaluated |-> evaluated]
    ELSE LET rule == Head(expected)
             result == validator(rule.name, display, rule.value)
         IN  IF rule.name \notin RuleNames
             THEN validate_rules_skipping_unknown(display, Tail(expected), evaluated)
             ELSE IF ~result.is_valid
             THEN [result |-> result, evaluated |-> Append(evaluated, rule.name)]
             ELSE validate_rules_skipping_unknown(display, Tail(expected),
                                                  Append(evaluated, rule.name))

\* the loop of validate_display_content over expected.items(), the rules in
\* the order of the map; evaluated: the rules whose validator was called
RECURSIVE validate_rules(_, _, _)
validate_rules(display, expected, evaluated) ==
    IF expected = <<>>
    THEN [result |-> ValidationResult(TRUE, "", 0), evaluated |-> evaluated]
    ELSE LET rule == Head(expected)
             result == validator(rule.name, display, rule.value)
         IN  IF rule.name \notin RuleNames
             THEN [result |-> ValidationResult(FALSE, "Unknown validation rule", 0),
                   evaluated |-> evaluated]
             ELSE IF ~result.is_valid
             THEN [result |-> result, evaluated |-> Append(evaluated, rule.name)]
             ELSE validate_rules(display, Tail(expected), Append(evaluated, rule.name))

\* the lines a display shows and the lines an expectation lists
ValidatorLines == {<<>>, <<" ">>, <<"a">>, <<" ", "a", " ">>, <<"b">>}

LinesUpTo(n) == UNION {[1..k -> ValidatorLines] : k \in 0..n}

\* the displays passed to the validator: current_content and is_active
Displays == [content : LinesUpTo(2), is_active : BOOLEAN]

\* the entries of an expectation map: "contains" is not a rule
Rules ==
    [name : {"content_match"},
     value : {RuleValue("str", <<"a">>, <<>>, 0), RuleValue("str", <<"a", NL, "b">>, <<>>, 0),
              RuleValue("int", <<>>, <<>>, 1)}
                \cup {RuleValue("list", <<>>, l, 0) : l \in LinesUpTo(2)}]
        \cup [name : {"line_count", "character_count", "response_time", "not_empty",
                      "is_empty"},
              value : {RuleValue("int", <<>>, <<>>, 1)}]
        \cup [name : {"status"},
              value : {RuleValue("str", <<"a", "c", "t", "i", "v", "e">>, <<>>, 0),
                       RuleValue("str", <<"i", "n", "a", "c", "t", "i", "v", "e">>, <<>>, 0)}]
        \cup [name : {"regex_match"},
              value : {RuleValue("str", <<"a">>, <<>>, 0), RuleValue("str", <<"(">>, <<>>, 0)}]
        \cup [name : {"contains"}, value : {RuleValue("str", <<"a">>, <<>>, 0)}]

\* the entries of the expectation maps that hold several rules
OrderedRules ==
    {r \in Rules :
        /\ r.name = "content_match" =>
              r.value \in {RuleValue("str", <<"a">>, <<>>, 0),
                           RuleValue("list", <<>>, <<(<<"a">>)>>, 0)}
        /\ r.name = "status" => r.value.text = <<"a", "c", "t", "i", "v", "e">>}

\* the expectation maps: the empty map, every single entry, and up to MaxRules
\* entries with distinct keys in insertion order
Expectations ==
    {<<>>} \cup {<<r>> : r \in Rules}
        \cup UNION {{e \in [1..k -> OrderedRules] :
                        \A i, j \in 1..k : i # j => e[i].name # e[j].name} :
                    k \in 2..MaxRules}

\* validate_display_content
validate_display_content(display, expected) ==
    /\ validation.pc = "idle"
    /\ LET outcome == validate_rules(display, expected, <<>>)
       IN  validation' = [pc |-> "done", content |-> display.content,
                          is_active |-> display.is_active, expected |-> expected,
                          evaluated |-> outcome.evaluated, result |-> outcome.result]
    /\ UNCHANGED <<emu_vars, call, dispatch, results, run, batch, continuous, cli,
                   commands, clock, app_vars>>

-----------------------------------------------------------------------------
(* Scenario loader: ScenarioLoader *)

\* the members of the enum ScenarioCategory and their values
ScenarioCategory ==
    [BASIC |-> "basic", FUNCTIONAL |-> "functional", PERFORMANCE |-> "performance",
     STRESS |-> "stress", ERROR_HANDLING |-> "error_handling",
     INTEGRATION |-> "integration", HARDWARE |-> "hardware"]

\* an exception in flight
Raised(exception) == [exception |-> exception]

IsRaised(x) == "exception" \in DOMAIN x

\* the exception classes of the loader's calls; all derive from Exception
Exceptions ==
    {"FileNotFoundError", "YAMLError", "JSONDecodeError", "AttributeError", "KeyError"}

\* an except clause for the errors of open() only
caught_by_except_OSError(exception) == exception = "FileNotFoundError"

\* except Exception as e
caught(exception) == exception \in Exceptions

\* dict.get(key, default)
get(d, key, default) == IF key \in DOMAIN d THEN d[key] ELSE default

\* the category parsed as BASIC whatever the mapping says
category_always_basic(category_str) == "BASIC"

\* ScenarioCategory(category_str), BASIC on ValueError
category_of(category_str) ==
    IF \E m \in DOMAIN ScenarioCategory : ScenarioCategory[m] = category_str
    THEN CHOOSE m \in DOMAIN ScenarioCategory : ScenarioCategory[m] = category_str
    ELSE "BASIC"

\* the TestStep of a step mapping; step_data['name'] and step_data['action']
\* raise KeyError when missing (data None is <<>>)
parse_step(step_data) ==
    IF "name" \notin DOMAIN step_data \/ "action" \notin DOMAIN step_data
    THEN Raised("KeyError")
    ELSE [name |-> step_data.name, action |-> step_data.action,
          data |-> get(step_data, "data", <<>>),
          delay_after |-> get(step_data, "delay_after", 0)]

\* ScenarioLoader._parse_scenario_data: the TestScenario, or the KeyError of
\* the first missing key
_parse_scenario_data(data) ==
    LET steps_data == get(data, "steps", <<>>)
        steps == [i \in 1..Len(steps_data) |-> parse_step(steps_data[i])]
    IN  IF \E i \in 1..Len(steps) : IsRaised(steps[i]) THEN Raised("KeyError")
        ELSE IF "id" \notin DOMAIN data \/ "name" \notin DOMAIN data
        THEN Raised("KeyError")
        ELSE [id |-> data.id, name |-> data.name,
              category |-> category_of(get(data, "category", "basic")),
              tags |-> get(data, "tags", <<>>), steps |-> steps]

\* ScenarioLoader._scenario_to_dict
_scenario_to_dict(scenario) ==
    [id |-> scenario.id, name |-> scenario.name,
     category |-> ScenarioCategory[scenario.category], tags |-> scenario.tags,
     steps |-> [i \in 1..Len(scenario.steps) |->
                  [name |-> scenario.steps[i].name, action |-> scenario.steps[i].action,
                   data |-> scenario.steps[i].data,
                   delay_after |-> scenario.steps[i].delay_after]]]

\* a file as its parsers see it: format yaml, json or text (neither), and the
\* document a parser of that format returns
File(format, document) == [format |-> format, document |-> document]

\* the document of an empty YAML file: None
NoDocument == [none |-> TRUE]

\* yaml.safe_load (JSON text is YAML) and json.load
parse(file, parser) ==
    IF parser = "yaml"
    THEN IF file.format \in {"yaml", "json"} THEN file.document ELSE Raised("YAMLError")
    ELSE IF file.format = "json" THEN file.document ELSE Raised("JSONDecodeError")

\* the loop of load_from_yaml / load_from_json over the entries from the i-th:
\* the scenarios parsed, and the exception that ended the loop if any
RECURSIVE parse_entries(_, _, _)
parse_entries(entries, i, scenarios) ==
    IF i > Len(entries) THEN [scenarios |-> scenarios, raised |-> ""]
    ELSE LET scenario == _parse_scenario_data(entries[i])
         IN  IF IsRaised(scenario)
             THEN [scenarios |-> scenarios, raised |-> scenario.exception]
             ELSE parse_entries(entries, i + 1, Append(scenarios, scenario))

\* the try block of load_from_yaml / load_from_json
try_load(path, parser) ==
    IF path \notin DOMAIN loader.files
    THEN [scenarios |-> <<>>, raised |-> "FileNotFoundError"]
    ELSE LET data == parse(loader.files[path], parser)
         IN  IF IsRaised(data) THEN [scenarios |-> <<>>, raised |-> data.exception]
             ELSE IF data = NoDocument
             THEN [scenarios |-> <<>>, raised |-> "AttributeError"]
             ELSE parse_entries(get(data, "scenarios", <<>>), 1, <<>>)

\* self.scenarios after the scenarios parsed were registered, in order
RECURSIVE registered(_, _)
registered(scenarios, parsed) ==
    IF parsed = <<>> THEN scenarios
    ELSE registered(assign(scenarios, parsed[1].id, parsed[1]), Tail(parsed))

\* load_from_yaml / load_from_json: the scenarios parsed before an exception
\* stay registered; a caught exception returns []
load(path, parser) ==
    LET try == try_load(path, parser)
        op == IF parser = "yaml" THEN "load_from_yaml" ELSE "load_from_json"
    IN  /\ loader' = [loader EXCEPT
              !.scenarios = registered(@, try.scenarios),
              !.last = [op |-> op, path |-> path,
                        raised |-> IF caught(try.raised) THEN "" ELSE try.raised,
                        scenarios |-> IF try.raised = "" THEN try.scenarios ELSE <<>>]]
        /\ UNCHANGED <<emu_vars, call, dispatch, results, run, batch, continuous, cli,
                       commands, validation, clock, loggers, window, tool_vars>>

\* save_to_yaml / save_to_json into a writable directory
save(scenarios, path, format) ==
    /\ loader' = [loader EXCEPT
          !.files = assign(@, path,
                File(format, [scenarios |-> [i \in 1..Len(scenarios) |->
                                                _scenario_to_dict(scenarios[i])]])),
          !.saved = assign(@, path, scenarios),
          !.last = [op |-> IF format = "yaml" THEN "save_to_yaml" ELSE "save_to_json",
                    path |-> path, raised |-> "", scenarios |-> <<>>]]
    /\ UNCHANGED <<emu_vars, call, dispatch, results, run, batch, continuous, cli,
                   commands, validation, clock, loggers, window, tool_vars>>

\* somebody else writes the file
write_file(path, file) ==
    /\ IF path \in DOMAIN loader.files THEN loader.files[path] # file ELSE TRUE
    /\ loader' = [loader EXCEPT !.files = assign(@, path, file),
                                !.saved = remove(@, path)]
    /\ UNCHANGED <<emu_vars, call, dispatch, results, run, batch, continuous, cli,
                   commands, validation, clock, loggers, window, tool_vars>>

-----------------------------------------------------------------------------
(* Main window: the displays, their widgets and the configuration panel *)

\* the range of the panel's lines spin box
LinesRange == 1..4

\* the range of the panel's length spin box, 10..80, and the default length
\* 20, at the scale of the messages enumerated
LengthRange == {2, 3}

DefaultLineLength == 3

\* what the widgets send: the test message, and "" for the clear button
WindowMessages == {<<>>, <<"a", "b", "c", "d", NL, "e", NL, "f">>}

\* the identifiers of displays, in the order of the clock that names them
DisplayIds == <<"display_1", "display_2", "display_3", "display_4">>

\* f"COM{n}" and f"USB{n}"
ComPorts == <<"COM1", "COM2", "COM3", "COM4">>

UsbPorts == <<"USB1", "USB2", "USB3", "USB4">>

\* VirtualDisplay.__post_init__: an empty current_content becomes one empty
\* line per display line
VirtualDisplay(config) ==
    [config |-> config, is_active |-> FALSE,
     current_content |-> blank_lines(config.display_lines)]

\* self.displays[display_id] = display with an identifier not in use; the
\* dictionary keeps the order of insertion
added(w, config) ==
    LET display_id == DisplayIds[CHOOSE i \in 1..Len(DisplayIds) :
                                    /\ DisplayIds[i] \notin DOMAIN w.displays
                                    /\ \A j \in 1..(i - 1) :
                                          DisplayIds[j] \in DOMAIN w.displays]
    IN  [w EXCEPT !.displays = assign(@, display_id, VirtualDisplay(config)),
                  !.order = Append(@, display_id),
                  !.config_changed = 0]

\* add_serial_display: port COM<n> with n the number of displays plus one,
\* the default geometry of VirtualDisplayConfig
add_serial_display ==
    LET n == Len(window.order) + 1
    IN  /\ window' = added(window, VirtualDisplayConfig(ComPorts[n], "serial", 2,
                                                        DefaultLineLength, {}, 0))
        /\ UNCHANGED <<emu_vars, call, dispatch, results, run, batch, continuous, cli,
                       commands, validation, clock, loader, loggers, tool_vars>>

\* the combo box text load_configuration selects for a connection type
connection_type_text(connection_type) ==
    IF connection_type = "serial" THEN "Serie"
    ELSE IF connection_type = "usb" THEN "USB" ELSE "Reseau"

\* the connection type on_config_changed derives from the combo box text
connection_type_of(text) ==
    IF text = "Serie" THEN "serial" ELSE IF text = "USB" THEN "usb" ELSE "network"

\* on_config_changed, lines 198-232: every field of the configuration object
\* of the current display is assigned from the widgets
from_widgets(config, panel) ==
    [config EXCEPT !.port_name = panel.port_name,
                   !.connection_type = connection_type_of(panel.connection_type),
                   !.display_lines = panel.display_lines,
                   !.line_length = panel.line_length]

\* a widget's setter: a value other than the one shown makes the widget emit
\* its changed signal, whose slot is on_config_changed; config_changed is
\* emitted unless the panel's own signals are blocked
set_widget(form, field, value, blocked) ==
    IF form.panel[field] = value THEN form
    ELSE LET panel == [form.panel EXCEPT ![field] = value]
         IN  [panel |-> panel, config |-> from_widgets(form.config, panel),
              emitted |-> IF blocked THEN form.emitted ELSE form.emitted + 1]

\* load_configuration: blockSignals(True) on the panel, then the setters of
\* the child widgets in turn, each reading the configuration object as the
\* slots before it left it
load_configuration(panel, config) ==
    LET f0 == [panel |-> panel, config |-> config, emitted |-> 0]
        f1 == set_widget(f0, "port_name", f0.config.port_name, TRUE)
        f2 == set_widget(f1, "connection_type",
                         connection_type_text(f1.config.connection_type), TRUE)
        f3 == set_widget(f2, "display_lines", f2.config.display_lines, TRUE)
    IN  set_widget(f3, "line_length", f3.config.line_length, TRUE)

\* on_display_selected: the panel's set_display, which loads the display's
\* configuration into the form
on_display_selected(display_id) ==
    /\ display_id \in DOMAIN window.displays
    /\ window.current_display # display_id
    /\ LET form == load_configuration(window.panel, window.displays[display_id].config)
       IN  window' = [window EXCEPT !.current_display = display_id,
                                    !.panel = form.panel,
                                    !.displays[display_id].config = form.config,
                                    !.config_changed = form.emitted]
    /\ UNCHANGED <<emu_vars, call, dispatch, results, run, batch, continuous, cli,
                   commands, validation, clock, loader, loggers, tool_vars>>

\* the first display, in the order of insertion, with this port name
first_of(w, port_name) ==
    LET matches == {i \in 1..Len(w.order) :
                       w.displays[w.order[i]].config.port_name = port_name}
    IN  IF matches = {} THEN ""
        ELSE w.order[CHOOSE i \in matches : \A j \in matches : i <= j]

\* on_port_opened / on_port_closed: the first display of that port is active
\* or not
on_port_event(port_name, opened) ==
    /\ LET d == first_of(window, port_name)
       IN  /\ d # ""
           /\ window.displays[d].is_active # opened
           /\ window' = [window EXCEPT !.displays[d].is_active = opened,
                                       !.config_changed = 0]
    /\ UNCHANGED <<emu_vars, call, dispatch, results, run, batch, continuous, cli,
                   commands, validation, clock, loader, loggers, tool_vars>>

\* the form after an edit: on_display_config_changed stores the configuration
\* object, which is the one the display holds already
edited(w, form) ==
    [w EXCEPT !.panel = form.panel,
              !.displays[w.current_display].config = form.config,
              !.config_changed = form.emitted]

\* ConfigurationPanel.on_config_changed after an edit of the lines or the
\* length spin box, then on_display_config_changed: the configuration object
\* of the selected display takes the values; nothing else is written
on_config_changed(display_lines, line_length) ==
    /\ window.current_display # ""
    /\ LET d == window.current_display
           f0 == [panel |-> window.panel, config |-> window.displays[d].config,
                  emitted |-> 0]
           f1 == set_widget(f0, "display_lines", display_lines, FALSE)
           f2 == set_widget(f1, "line_length", line_length, FALSE)
       IN  /\ f2.panel # window.panel
           /\ window' = edited(window, f2)
    /\ UNCHANGED <<emu_vars, call, dispatch, results, run, batch, continuous, cli,
                   commands, validation, clock, loader, loggers, tool_vars>>

\* on_display_update for the display-update event of a message a widget sent
\* with its display's configuration
on_display_update(port_name, message) ==
    /\ LET d == first_of(window, port_name)
       IN  /\ d # ""
           /\ window.displays[d].is_active
           /\ window' = [window EXCEPT !.displays[d].current_content =
                                           content_of(message, window.displays[d].config),
                                       !.config_changed = 0]
    /\ UNCHANGED <<emu_vars, call, dispatch, results, run, batch, continuous, cli,
                   commands, validation, clock, loader, loggers, tool_vars>>

\* VirtualDisplayWidget.clear_display: nothing on an inactive display; else a
\* send of "" is scheduled and the content is blanked at once
clear_display(display_id) ==
    /\ display_id \in DOMAIN window.displays
    /\ window.displays[display_id].is_active
    /\ window' = [window EXCEPT !.displays[display_id].current_content =
                      blank_lines(window.displays[display_id].config.display_lines),
                                !.config_changed = 0]
    /\ UNCHANGED <<emu_vars, call, dispatch, results, run, batch, continuous, cli,
                   commands, validation, clock, loader, loggers, tool_vars>>

\* add_usb_display: port USB<n> with n the number of displays of connection
\* type USB plus one
add_usb_display ==
    LET n == Cardinality({d \in DOMAIN window.displays :
                             window.displays[d].config.connection_type = "usb"}) + 1
    IN  /\ window' = added(window, VirtualDisplayConfig(UsbPorts[n], "usb", 2,
                                                        DefaultLineLength, {}, 0))
        /\ UNCHANGED <<emu_vars, call, dispatch, results, run, batch, continuous, cli,
                       commands, validation, clock, loader, loggers, tool_vars>>

\* on_port_opened / on_port_closed as the emulator's emit calls them
handled(w, port_name, opened) ==
    LET d == first_of(w, port_name)
    IN  IF d = "" THEN [w EXCEPT !.config_changed = 0]
        ELSE [w EXCEPT !.displays[d].is_active = opened, !.config_changed = 0]

\* the open_port task of a display's configuration, which has no fault and
\* no latency, run to its end: a missing port is created, the connection is
\* recorded and counted, and port-opened reaches on_port_opened
opened_by(w, config) ==
    LET p == config.port_name
        port == IF p \in DOMAIN ports THEN ports[p] ELSE NewPort(config.connection_type)
    IN  /\ ports' = assign(ports, p, open_flags(port))
        /\ active_connections' = assign(active_connections, p, config.connection_type)
        /\ statistics' = [statistics EXCEPT !.active_connections = @ + 1]
        /\ last_return' = Return("open", p, "ok",
                                 <<Event("port-opened", p, statistics)>>)
        /\ window' = handled(w, p, TRUE)

\* the close_port task of a port name run to its end: port-closed reaches
\* on_port_closed when the port is registered
closed_by(w, p) ==
    IF p \notin DOMAIN ports
    THEN /\ window' = [w EXCEPT !.config_changed = 0]
         /\ last_return' = Return("close", p, "ok", <<>>)
         /\ UNCHANGED <<ports, active_connections, statistics>>
    ELSE /\ ports' = [ports EXCEPT ![p] = close_flags(@)]
         /\ active_connections' =
               IF p \in DOMAIN active_connections
               THEN remove(active_connections, p) ELSE active_connections
         /\ statistics' = close_counts(p)
         /\ last_return' = Return("close", p, "ok",
                                  <<Event("port-closed", p, statistics)>>)
         /\ window' = handled(w, p, FALSE)

\* toggle_connection on a display that is not active, and connect_all_displays
\* for one such display, with the task they schedule
connect_display(display_id) ==
    /\ display_id \in DOMAIN window.displays
    /\ ~window.displays[display_id].is_active
    /\ opened_by(window, window.displays[display_id].config)
    /\ UNCHANGED <<display_content, message_queue, is_processing, event_handlers,
                   tasks, worker, out_seqs, destroyed, call, dispatch, results, run,
                   batch, continuous, cli, commands, validation, clock, loader, loggers, tool_vars>>

\* toggle_connection on an active display, and disconnect_all_displays for
\* one such display, with the task they schedule
disconnect_display(display_id) ==
    /\ display_id \in DOMAIN window.displays
    /\ window.displays[display_id].is_active
    /\ closed_by(window, window.displays[display_id].config.port_name)
    /\ UNCHANGED <<display_content, message_queue, is_processing, event_handlers,
                   tasks, worker, out_seqs, destroyed, call, dispatch, results, run,
                   batch, continuous, cli, commands, validation, clock, loader, loggers, tool_vars>>

\* remove_display: the close of an active display is scheduled, the display
\* leaves the dictionary and the selection, and then the close runs
remove_display(display_id) ==
    /\ display_id \in DOMAIN window.displays
    /\ LET display == window.displays[display_id]
           w == [window EXCEPT
                    !.displays = remove(@, display_id),
                    !.order = list_remove(@, display_id),
                    !.current_display = IF @ = display_id THEN "" ELSE @,
                    !.config_changed = 0]
       IN  IF display.is_active
           THEN closed_by(w, display.config.port_name)
           ELSE /\ window' = w
                /\ UNCHANGED <<ports, active_connections, statistics, last_return>>
    /\ UNCHANGED <<display_content, message_queue, is_processing, event_handlers,
                   tasks, worker, out_seqs, destroyed, call, dispatch, results, run,
                   batch, continuous, cli, commands, validation, clock, loader, loggers, tool_vars>>

\* an edit of the port name field of the panel: on_config_changed, then
\* on_display_config_changed
port_name_edit(text) ==
    /\ window.current_display # ""
    /\ text # window.panel.port_name
    /\ LET f0 == [panel |-> window.panel,
                  config |-> window.displays[window.current_display].config,
                  emitted |-> 0]
       IN  window' = edited(window, set_widget(f0, "port_name", text, FALSE))
    /\ UNCHANGED <<emu_vars, call, dispatch, results, run, batch, continuous, cli,
                   commands, validation, clock, loader, loggers, tool_vars>>

-----------------------------------------------------------------------------
(* Logging: setup_logger *)

\* the names the components pass to setup_logger
LoggerNames == {"test_runner", "scenario_loader"}

\* level names, as getattr(logging, level.upper()) resolves them
Levels == [DEBUG |-> 10, INFO |-> 20, WARNING |-> 30, ERROR |-> 40]

\* log_file arguments: None is ""
LogFiles == {"", "a.log", "b.log"}

\* logging.getLogger(name) for a name not yet in the registry: level NOTSET,
\* no handler
getLogger(name) ==
    IF name \in DOMAIN loggers THEN loggers[name]
    ELSE [level |-> 0, handlers |-> <<>>]

\* the console handler, and the file handler if log_file is given
new_handlers(log_file) ==
    IF log_file = "" THEN <<"stdout">> ELSE <<"stdout", log_file>>

\* setup_logger: the logger it returns, which is the registry's entry for name
setup_logger_returns(name, level, log_file) ==
    LET logger == [getLogger(name) EXCEPT !.level = Levels[level]]
    IN  IF logger.handlers # <<>> THEN logger
        ELSE [logger EXCEPT !.handlers = new_handlers(log_file)]

\* a call of setup_logger
setup_logger(name, level, log_file) ==
    /\ loggers' = assign(loggers, name, setup_logger_returns(name, level, log_file))
    /\ UNCHANGED <<emu_vars, call, dispatch, results, run, batch, continuous, cli,
                   commands, validation, clock, loader, window, tool_vars>>

-----------------------------------------------------------------------------
(* Simplified GUI: the preset displays and the message file bridge *)

\* the three preset buttons; the widths 20 and 16 at the scale of the
\* messages enumerated
Presets ==
    {VirtualDisplayConfig("COM_SERIAL", "serial", 2, 3, {}, 0),
     VirtualDisplayConfig("USB_DISPLAY", "usb", 2, 2, {}, 0),
     VirtualDisplayConfig("USB_SERIAL", "usb_serial", 2, 3, {}, 0)}

\* create_display_sync: create_virtual_port, which raises for a registered
\* name, then open_port, then the display is registered
create_display_sync(config) ==
    LET p == config.port_name
    IN  /\ IF already_exists(config)
           THEN /\ last_return' = Return("create", p, "raised", <<>>)
                /\ UNCHANGED <<ports, active_connections, statistics, bridge>>
           ELSE /\ ports' = assign(ports, p, open_flags(NewPort(config.connection_type)))
                /\ active_connections' =
                      assign(active_connections, p, config.connection_type)
                /\ statistics' = [statistics EXCEPT !.active_connections = @ + 1]
                /\ last_return' = Return("open", p, "ok",
                                         <<Event("port-opened", p, statistics)>>)
                /\ bridge' = [bridge EXCEPT !.current_displays = assign(@, p, config)]
        /\ UNCHANGED <<display_content, message_queue, is_processing, event_handlers,
                       tasks, worker, out_seqs, destroyed, call, dispatch, results, run,
                       batch, continuous, cli, commands, validation, clock, loader,
                       loggers, window, monitoring, console>>

\* the lines of process_external_message without the limit on their number
external_lines_unlimited(message, config) ==
    LET lines == split(message)
        padded == lines \o blank_lines(config.display_lines - Len(lines))
    IN  [i \in 1..Len(padded) |->
            IF Len(padded[i]) > config.line_length
            THEN slice(padded[i], config.line_length) ELSE padded[i]]

\* the lines process_external_message stores: split, limit, pad, truncate
external_lines(message, config) ==
    LET lines == split(message)
        limited == IF Len(lines) > config.display_lines
                   THEN SubSeq(lines, 1, config.display_lines) ELSE lines
        padded == limited \o blank_lines(config.display_lines - Len(limited))
    IN  [i \in 1..Len(padded) |->
            IF Len(padded[i]) > config.line_length
            THEN slice(padded[i], config.line_length) ELSE padded[i]]

\* the content map after process_external_message: written for a port of
\* current_displays only
externally_stored(content, port_name, message) ==
    IF port_name \in DOMAIN bridge.current_displays
    THEN store(content, port_name,
               external_lines(message, bridge.current_displays[port_name]))
    ELSE content

\* process_external_message called with a port name and a message
process_external_message(port_name, message) ==
    /\ display_content' = externally_stored(display_content, port_name, message)
    /\ bridge' = [bridge EXCEPT !.last =
                      [port_name |-> port_name, message |-> message,
                       known |-> port_name \in DOMAIN bridge.current_displays]]
    /\ UNCHANGED <<ports, active_connections, message_queue, is_processing,
                   event_handlers, statistics, tasks, worker, last_return, out_seqs,
                   destroyed, call, dispatch, results, run, batch, continuous, cli,
                   commands, validation, clock, loader, loggers, window, monitoring,
                   console>>

\* line.split('|', 1) and the two strips of check_external_messages: the
\* port name is the field before the first bar when it is one name
field(line) ==
    LET k == CHOOSE i \in 1..Len(line) : line[i] = "|" /\ \A j \in 1..(i - 1) : line[j] # "|"
        port == strip(SubSeq(line, 1, k - 1))
    IN  [port_name |-> IF Len(port) = 1 THEN port[1] ELSE "",
         message |-> strip(SubSeq(line, k + 1, Len(line)))]

\* the lines of the text read that hold a bar, as port name and message
fields(content) ==
    IF content = <<>> THEN <<>>
    ELSE LET lines == split(content)
             barred == SelectSeq(lines, LAMBDA line : \E i \in 1..Len(line) : line[i] = "|")
         IN  [i \in 1..Len(barred) |-> field(barred[i])]

\* the content map after process_external_message ran for each field in turn
RECURSIVE externally_stored_all(_, _)
externally_stored_all(content, fs) ==
    IF fs = <<>> THEN content
    ELSE externally_stored_all(externally_stored(content, fs[1].port_name, fs[1].message),
                               Tail(fs))

\* send_message_to_display of another process: PORT|MESSAGE and a newline
\* appended to the message file, which takes the date as modification time
send_message_to_display(port_name, message) ==
    /\ bridge' = [bridge EXCEPT !.exists = TRUE,
                                !.file = @ \o <<port_name, "|">> \o message \o <<NL>>,
                                !.mtime = bridge.date,
                                !.appended = Append(@, [port_name |-> port_name,
                                                        message |-> message])]
    /\ UNCHANGED <<emu_vars, call, dispatch, results, run, batch, continuous, cli,
                   commands, validation, clock, loader, loggers, window, monitoring,
                   console>>

\* check_external_messages up to the read: a file modified since the last
\* poll is read and stripped (a missing or unmodified file ends the poll)
check_external_messages ==
    /\ bridge.pc = "idle"
    /\ bridge.exists
    /\ bridge.mtime > bridge.last_message_mtime
    /\ bridge' = [bridge EXCEPT !.last_message_mtime = bridge.mtime,
                                !.content = strip(bridge.file),
                                !.pc = "read"]
    /\ UNCHANGED <<emu_vars, call, dispatch, results, run, batch, continuous, cli,
                   commands, validation, clock, loader, loggers, window, monitoring,
                   console>>

\* check_external_messages after the read: each line with a bar is processed,
\* then the file is opened for writing, which empties it
check_external_messages_clear ==
    /\ bridge.pc = "read"
    /\ LET fs == fields(bridge.content)
           known == SelectSeq(fs, LAMBDA f : f.port_name \in DOMAIN bridge.current_displays)
       IN  /\ display_content' = externally_stored_all(display_content, fs)
           /\ bridge' =
                 IF bridge.content = <<>>
                 THEN [bridge EXCEPT !.pc = "idle"]
                 ELSE [bridge EXCEPT
                          !.pc = "idle", !.content = <<>>,
                          !.file = <<>>, !.mtime = bridge.date,
                          !.processed = @ \o known,
                          !.last = IF fs = <<>> THEN @
                                   ELSE [port_name |-> fs[Len(fs)].port_name,
                                         message |-> fs[Len(fs)].message,
                                         known |-> fs[Len(fs)].port_name
                                                      \in DOMAIN bridge.current_displays]]
    /\ UNCHANGED <<ports, active_connections, message_queue, is_processing,
                   event_handlers, statistics, tasks, worker, last_return, out_seqs,
                   destroyed, call, dispatch, results, run, batch, continuous, cli,
                   commands, validation, clock, loader, loggers, window, monitoring,
                   console>>

\* the date of the file system moves on
date_passes ==
    /\ bridge' = [bridge EXCEPT !.date = @ + 1]
    /\ UNCHANGED <<emu_vars, call, dispatch, results, run, batch, continuous, cli,
                   commands, validation, clock, loader, loggers, window, monitoring,
                   console>>

-----------------------------------------------------------------------------
(* Monitoring panel: the communications table *)

\* the row limit of add_communication_entry
max_rows == 1000

\* an inserted row whose cells are not set
EmptyRow == 0

\* the text of the status cell
status_text(status) ==
    CASE status = "success" -> "Succes"
      [] status = "error" -> "Erreur"
      [] status = "timeout" -> "Timeout"
      [] OTHER -> status

\* the table of a mutant that drops the newest row of a full table
table_newest_dropped(rows, entry) ==
    LET row == Len(rows)
        inserted == Append(rows, EmptyRow)
        limited == IF row >= max_rows THEN SubSeq(inserted, 1, row) ELSE inserted
        at == IF row >= max_rows THEN row - 1 ELSE row
    IN  [limited EXCEPT ![at + 1] = entry]

\* the rows after add_communication_entry: a row is inserted at the end, the
\* first row is removed from a table that held the limit, and the cells of
\* the last row are set
table_after(rows, entry) ==
    LET row == Len(rows)
        inserted == Append(rows, EmptyRow)
        limited == IF row >= max_rows THEN Tail(inserted) ELSE inserted
        at == IF row >= max_rows THEN row - 1 ELSE row
    IN  [limited EXCEPT ![at + 1] = entry]

\* add_communication_entry; a row is known by the time of its entry, and the
\* other cells of the newest row are kept in last
add_communication_entry(timestamp, direction, status) ==
    /\ monitoring' = [rows |-> table_after(monitoring.rows, timestamp),
                      added |-> monitoring.added + 1,
                      last |-> [time |-> timestamp,
                                direction |-> IF direction = "out" THEN "out" ELSE "in",
                                status |-> status_text(status)]]
    /\ UNCHANGED <<emu_vars, call, dispatch, results, run, batch, continuous, cli,
                   commands, validation, clock, loader, loggers, window, bridge,
                   console>>

-----------------------------------------------------------------------------
(* Console shell: VirtualDisplayConsole *)

\* the configuration the registry holds under a port name: the module-level
\* object the entry refers to, as it is now
registered_config(port_name) == console[console.displays[port_name]]

\* do_create_serial / do_create_usb: the port name is written into the
\* module-level default configuration, the port is created from it, and the
\* registry entry refers to that same object
do_create(line, default) ==
    LET port_name == IF strip(line) # <<>> THEN strip(line)[1]
                     ELSE IF default = "DEFAULT_DISPLAY_CONFIG" THEN "COM1" ELSE "USB1"
        config == [console[default] EXCEPT !.port_name = port_name]
        named == [console EXCEPT ![default] = config]
    IN  /\ IF create_raises(config)
           THEN /\ last_return' = Return("create", port_name, "raised", <<>>)
                /\ console' = named
                /\ UNCHANGED ports
           ELSE /\ ports' = assign(ports, port_name, NewPort(config.connection_type))
                /\ last_return' = Return("create", port_name, "ok",
                                         <<Event("port-created", port_name, statistics)>>)
                /\ console' = [named EXCEPT !.displays = assign(@, port_name, default)]
        /\ UNCHANGED <<active_connections, display_content, message_queue,
                       is_processing, event_handlers, statistics, tasks, worker,
                       out_seqs, destroyed, call, dispatch, results, run, batch,
                       continuous, cli, commands, validation, clock, loader, loggers,
                       window, bridge, monitoring>>

do_create_serial(line) == do_create(line, "DEFAULT_DISPLAY_CONFIG")

do_create_usb(line) == do_create(line, "DEFAULT_USB_CONFIG")

\* do_open: open_port with the configuration registered under the name
do_open(line) ==
    LET port_name == IF strip(line) # <<>> THEN strip(line)[1] ELSE ""
    IN  /\ port_name \in DOMAIN console.displays
        /\ await_open_port(port_name, registered_config(port_name))
        /\ UNCHANGED <<display_content, message_queue, is_processing, event_handlers,
                       tasks, worker, out_seqs, destroyed, call, dispatch, results,
                       run, batch, continuous, cli, commands, validation, clock,
                       loader, loggers, window, bridge, monitoring, console>>

-----------------------------------------------------------------------------
(* Specifications *)

\* the emulation core driven by cooperative callers (coroutines of one event
\* loop); no command is queued, so the worker thread only polls and is left out
Next ==
    \/ \E c \in CreateConfigs : create_virtual_port(c)
    \/ \E k \in DOMAIN tasks : create_virtual_port_created(k)
    \/ \E c \in CallerConfigs : open_port(c.port_name, c)
    \/ \E k \in DOMAIN tasks : open_port_created(k)
    \/ \E k \in DOMAIN tasks : open_port_latency(k)
    \/ \E k \in DOMAIN tasks : open_port_connect(k)
    \/ \E p \in PortNames : close_port(p)
    \/ \E c \in CallerConfigs, m \in Messages :
          Attempts < MaxMessages /\ send_message(c.port_name, m, c)
    \/ \E k \in DOMAIN tasks : send_message_tx(k)
    \/ \E k \in DOMAIN tasks : send_message_ack(k)

Spec == Init /\ [][Next]_vars

\* the configurations of the callers that run beside the worker thread
ThreadConfigs ==
    {c \in CallerConfigs :
        c.simulated_failures = {} /\ c.connection_type \in {"serial", "network"}}

ThreadMessages == {<<"a", "b", "c", "d", NL, "e", NL, "f">>}

\* the emulation core with its worker thread, the command queue, subscribers
\* and destroy: one foreground call at a time, and none after destroy
NextThreads ==
    \/ \E c \in ThreadConfigs :
          ~destroyed /\ tasks = EmptyBag /\ open_port(c.port_name, c)
    \/ \E k \in DOMAIN tasks : open_port_created(k)
    \/ \E k \in DOMAIN tasks : open_port_latency(k)
    \/ \E k \in DOMAIN tasks : open_port_connect(k)
    \/ \E p \in PortNames : ~destroyed /\ tasks = EmptyBag /\ close_port(p)
    \/ \E c \in ThreadConfigs, m \in ThreadMessages :
          /\ ~destroyed /\ tasks = EmptyBag /\ Attempts < MaxMessages
          /\ send_message(c.port_name, m, c)
    \/ \E k \in DOMAIN tasks : send_message_tx(k)
    \/ \E k \in DOMAIN tasks : send_message_ack(k)
    \/ \E cmd \in Commands : ~destroyed /\ queue_command(cmd)
    \/ ~destroyed /\ Registered < MaxSubscribers /\ on("display-update", "h1")
    \/ \E in_loop \in BOOLEAN : ~destroyed /\ destroy(in_loop)
    \/ process_messages_start
    \/ process_messages_loop
    \/ process_messages_poll
    \/ _execute_command
    \/ worker_write_total
    \/ worker_read_failed
    \/ worker_write_failed

SpecThreads == Init /\ [][NextThreads]_vars

\* the configurations of the callers whose latencies are followed
LatencyConfigs == {c \in CallerConfigs : c.connection_type = "serial"}

\* (end_time - start_time) * 1000 of a send, in milliseconds
Latencies == {1, 2}

\* time passes: the send that measures next takes another latency
elapse(latency) ==
    /\ latency # clock.elapsed
    /\ clock' = [clock EXCEPT !.elapsed = latency]
    /\ UNCHANGED <<emu_vars, call, dispatch, results, run, batch, continuous, cli,
                   commands, validation, app_vars>>

\* sends on one serial port, with and without injected faults, each taking
\* the latency the clock gives it
NextLatency ==
    \/ \E c \in LatencyConfigs : open_port(c.port_name, c)
    \/ \E k \in DOMAIN tasks : open_port_created(k)
    \/ \E k \in DOMAIN tasks : open_port_latency(k)
    \/ \E c \in LatencyConfigs, m \in ThreadMessages :
          Attempts < MaxSends /\ send_message(c.port_name, m, c)
    \/ \E k \in DOMAIN tasks : send_message_tx(k)
    \/ \E k \in DOMAIN tasks : send_message_ack(k)
    \/ \E latency \in Latencies : elapse(latency)

SpecLatency == Init /\ [][NextLatency]_vars

\* setup_logger called with every name, level and log file
NextLogger ==
    \E name \in LoggerNames, level \in DOMAIN Levels, log_file \in LogFiles :
        setup_logger(name, level, log_file)

SpecLogger == Init /\ [][NextLogger]_vars

WindowPorts == {"COM1", "COM2", "COM3"}

\* the main window: displays added, selected, opened and closed, updated by
\* the widgets' sends, cleared, and edited in the configuration panel
NextWindow ==
    \/ Len(window.order) < MaxDisplays /\ add_serial_display
    \/ \E d \in DOMAIN window.displays : on_display_selected(d)
    \/ \E p \in WindowPorts, opened \in BOOLEAN : on_port_event(p, opened)
    \/ \E dl \in LinesRange, ll \in LengthRange : on_config_changed(dl, ll)
    \/ \E p \in WindowPorts, m \in WindowMessages : on_display_update(p, m)
    \/ \E d \in DOMAIN window.displays : clear_display(d)

SpecWindow == Init /\ [][NextWindow]_vars

\* the main window: displays added, removed and selected
NextDisplays ==
    \/ Len(window.order) < MaxHeld /\ add_serial_display
    \/ Len(window.order) < MaxHeld /\ add_usb_display
    \/ \E d \in DOMAIN window.displays : remove_display(d)
    \/ \E d \in DOMAIN window.displays : on_display_selected(d)

SpecDisplays == Init /\ [][NextDisplays]_vars

\* the port names typed into the panel
EditedPorts == {"COM9"}

\* the main window hosted on a running event loop: serial displays added,
\* removed, selected, connected, disconnected and renamed
NextConnections ==
    \/ Len(window.order) < MaxHeld /\ add_serial_display
    \/ \E d \in DOMAIN window.displays : remove_display(d)
    \/ \E d \in DOMAIN window.displays : on_display_selected(d)
    \/ \E d \in DOMAIN window.displays :
          statistics.active_connections < MaxActive /\ connect_display(d)
    \/ \E d \in DOMAIN window.displays : disconnect_display(d)
    \/ \E text \in EditedPorts : port_name_edit(text)

SpecConnections == Init /\ [][NextConnections]_vars

\* the port names of the presets, and one no preset has
BridgePorts == {"COM_SERIAL", "USB_DISPLAY", "USB_SERIAL", "COM1"}

\* the messages of the calls: short texts of several lines, a blank, and
\* "clear" in three letter cases, followed by text and preceded by text
BridgeMessages ==
    StringsUpTo({"a", NL}, MaxMsgLen)
        \cup {<<" ">>, clear_word, <<"C", "l", "e", "a", "r">>,
              <<"C", "L", "E", "A", "R">>, clear_word \o <<"x">>, <<"x">> \o clear_word}

\* the simplified GUI: presets created, and process_external_message called
\* with every message, for one port name in a session
NextBridgeCall ==
    \/ \E config \in Presets : create_display_sync(config)
    \/ \E p \in BridgePorts :
          /\ DOMAIN display_content \subseteq {p}
          /\ \E m \in BridgeMessages : process_external_message(p, m)

SpecBridgeCall == Init /\ [][NextBridgeCall]_vars

\* what the senders write
SenderMessages == {<<"h", "i">>, <<"o", "k">>}

\* the simplified GUI polling the message file while other processes append
\* lines for the displays it has created
NextBridge ==
    \/ \E config \in Presets : create_display_sync(config)
    \/ \E p \in DOMAIN bridge.current_displays, m \in SenderMessages :
          Len(bridge.appended) < MaxAppends /\ send_message_to_display(p, m)
    \/ check_external_messages
    \/ check_external_messages_clear
    \/ bridge.date < MaxDate /\ date_passes

SpecBridge == Init /\ [][NextBridge]_vars

\* what on_port_opened, on_message_sent and on_message_failed pass
EntryKinds == {<<"system", "success">>, <<"out", "success">>, <<"out", "error">>}

\* the monitoring panel receiving entries, each at a later time than the last
NextMonitoring ==
    \E kind \in EntryKinds :
        /\ monitoring.added < MaxAdds
        /\ add_communication_entry(monitoring.added + 1, kind[1], kind[2])

SpecMonitoring == Init /\ [][NextMonitoring]_vars

\* the lines typed after a console command: a port name, or nothing
ConsoleLines == {<<>>, <<"COM1">>, <<"COM2">>, <<" ", "USB1">>}

\* the console shell taking one command after another
NextConsole ==
    \/ \E line \in ConsoleLines : do_create_serial(line)
    \/ \E line \in ConsoleLines : do_create_usb(line)
    \/ \E line \in ConsoleLines :
          statistics.active_connections < MaxActive /\ do_open(line)

SpecConsole == Init /\ [][NextConsole]_vars

\* all lists of at most n elements of S
RECURSIVE ListsUpTo(_, _)
ListsUpTo(S, n) ==
    IF n = 0 THEN {<<>>}
    ELSE LET shorter == ListsUpTo(S, n - 1)
         IN  shorter \cup {Append(l, x) : l \in shorter, x \in S}

\* the steps of a scenario file: complete, and with a required key missing
StepEntries ==
    {[name |-> "send", action |-> "send", data |-> <<"h", "i">>],
     [name |-> "clear", action |-> "clear"],
     [name |-> "send"],
     [action |-> "send"]}

\* the scenario entries of a scenario file: complete ones, with and without
\* the optional keys, and ones with a required key missing
ScenarioEntries ==
    {[id |-> "s1", name |-> "S1"],
     [id |-> "s1", name |-> "S1", category |-> "stress", tags |-> <<"display">>],
     [id |-> "s1", name |-> "S1", category |-> "unknown"],
     [name |-> "S1"],
     [id |-> "s1", category |-> "basic"]}
    \cup {[id |-> "s2", name |-> "S2", steps |-> <<step>>] : step \in StepEntries}

\* the files found beside the loader
Files ==
    {File("text", NoDocument), File("yaml", NoDocument),
     File("yaml", [name |-> "no scenarios"])}
    \cup {File(format, [scenarios |-> entries]) :
             format \in {"yaml", "json"}, entries \in ListsUpTo(ScenarioEntries, MaxEntries)}

\* the scenarios a caller saves: every category, with and without tags and steps
SavedScenarios ==
    {[id |-> "s1", name |-> "S1", category |-> m, tags |-> <<>>, steps |-> <<>>] :
        m \in DOMAIN ScenarioCategory}
    \cup {[id |-> "s2", name |-> "S2", category |-> m, tags |-> <<"display", "basic">>,
           steps |-> <<[name |-> "clear", action |-> "clear", data |-> <<>>,
                        delay_after |-> 0],
                       [name |-> "send", action |-> "send", data |-> <<"h", "i">>,
                        delay_after |-> 2000]>>] :
              m \in {"BASIC", "HARDWARE"}}

Paths == {"scenarios"}

Parsers == {"yaml", "json"}

\* the scenario loader beside files of every kind: a file is written where
\* there is none and read any number of times, before and after
NextLoader ==
    \/ \E path \in Paths, parser \in Parsers : load(path, parser)
    \/ \E path \in Paths :
          /\ path \notin DOMAIN loader.files
          /\ \E format \in Parsers, scenarios \in ListsUpTo(SavedScenarios, MaxEntries) :
                save(scenarios, path, format)
    \/ \E path \in Paths :
          /\ path \notin DOMAIN loader.files
          /\ \E file \in Files : write_file(path, file)

SpecLoader == Init /\ [][NextLoader]_vars

\* the event bus alone
NextEmit ==
    \/ \E e \in Events, h \in Handlers : Registered < MaxHandlers /\ on(e, h)
    \/ \E e \in Events, h \in Handlers : off(e, h)
    \/ \E e \in Events : emit(e)

SpecEmit == Init /\ [][NextEmit]_vars

\* display-content processing for every enumerated message, geometry and
\* prior content
InitContent ==
    /\ ports = <<>>
    /\ active_connections = <<>>
    /\ display_content \in PriorContents
    /\ message_queue = <<>>
    /\ is_processing = FALSE
    /\ event_handlers = <<>>
    /\ statistics = [total_messages |-> 0, successful_messages |-> 0,
                     failed_messages |-> 0, active_connections |-> 0,
                     average_latency |-> <<0, 1>>]
    /\ tasks = EmptyBag
    /\ worker = [pc |-> "start", command |-> NoCommand, tmp |-> 0, events |-> <<>>]
    /\ last_return = NoReturn
    /\ out_seqs = <<>>
    /\ destroyed = FALSE
    /\ call \in {[pc |-> "ready", port_name |-> c.port_name, message |-> m, config |-> c,
                   prior |-> display_content] :
                    m \in ContentMessages, c \in ContentConfigs}
    /\ dispatch = NoDispatch
    /\ results = <<>>
    /\ run = NoRun
    /\ batch = NoBatch
    /\ continuous = NoContinuous
    /\ cli = NoCli
    /\ commands = NoCommands
    /\ validation = NoValidation
    /\ clock = NoClock
    /\ loader = NoLoader
    /\ loggers = <<>>
    /\ window = NoWindow
    /\ bridge = NoBridge
    /\ monitoring = NoMonitoring
    /\ console = NoConsole

NextContent == _process_display_message

SpecContent == InitContent /\ [][NextContent]_vars

\* the runner called scenario by scenario by the coroutine that owns it
NextRunner ==
    \/ \E s \in Scenarios, c \in RunnerConfigs :
          Len(run.calls) < MaxRuns /\ run_scenario(s, c) /\ UNCHANGED batch
    \/ _execute_step
    \/ _cleanup_display
    \/ clear_results

SpecRunner == Init /\ [][NextRunner]_vars


\* one run of the command line in single-run mode
NextCli ==
    \/ \E args \in CliArgs : run_tests(args)
    \/ run_scenarios_next
    \/ _execute_step
    \/ _cleanup_display
    \/ run_tests_report

SpecCli == Init /\ [][NextCli]_vars

\* the steps of the coroutine run_continuous_tests
ContinuousSteps ==
    \/ continuous_loop
    \/ run_scenarios_next
    \/ _execute_step
    \/ _cleanup_display
    \/ continuous_report
    \/ continuous_wake

\* continuous mode: the coroutine, a caller that stops it, and a caller that
\* clears the results while the coroutine sleeps between two cycles
NextContinuous ==
    \/ \E l \in ContinuousLists, c \in RunnerConfigs : run_continuous_tests(l, c)
    \/ ContinuousSteps
    \/ stop
    \/ continuous.pc \in {"sleep", "retry"} /\ clear_results

\* the event loop runs a coroutine that is ready, and every sleep ends
SpecContinuous ==
    Init /\ [][NextContinuous]_vars /\ WF_vars(ContinuousSteps)

\* the steps of the background worker thread
WorkerSteps ==
    \/ process_messages_start
    \/ process_messages_loop
    \/ process_messages_poll
    \/ _execute_command
    \/ worker_write_total
    \/ worker_read_failed
    \/ worker_write_failed

\* the worker thread and a caller that queues commands and follows them
NextWorker ==
    \/ subscribe
    \/ \E c \in Commands :
          /\ commands.subscribed /\ Len(commands.log) < MaxCommands
          /\ queue_command(c)
    \/ WorkerSteps

\* the operating system schedules the worker thread, and its sleeps end
SpecWorker == Init /\ [][NextWorker]_vars /\ WF_vars(WorkerSteps)

\* one call of the Scenario Validator
NextValidate ==
    /\ validation.pc = "idle"
    /\ \E display \in Displays, expected \in Expectations :
          validate_display_content(display, expected)

SpecValidate == Init /\ [][NextValidate]_vars

-----------------------------------------------------------------------------
(* Properties *)

\* the names of a list of events
EventNames(events) == [i \in 1..Len(events) |-> events[i].name]

\* C1: once display-content processing has stored the content of a message,
\* the port holds exactly display_lines entries and none is longer than
\* line_length, for every message and geometry.
C1_StoredGeometry ==
    call.pc = "done" =>
        LET lines == display_content[call.port_name]
        IN  /\ Len(lines) = call.config.display_lines
            /\ \A i \in 1..Len(lines) : Len(lines[i]) <= call.config.line_length

\* a message with more lines than the display and a first line wider than it
C1_Witness ==
    /\ call.pc = "done"
    /\ ~is_clear(call.message)
    /\ Len(split(call.message)) > call.config.display_lines
    /\ Len(split(call.message)[1]) > call.config.line_length
    /\ call.config.line_length > 0
    /\ Len(display_content[call.port_name][1]) = call.config.line_length

\* C2: a message that is empty or starts with "clear" in any letter case
\* leaves the port with display_lines empty strings, whatever it held before.
C2_ClearBlanks ==
    (/\ call.pc = "done"
     /\ \/ call.message = <<>>
        \/ \E s \in ClearSpellings : startswith(call.message, s))
        => display_content[call.port_name] = blank_lines(call.config.display_lines)

\* "clear" with capitals, followed by text, sent to a port that held two lines
C2_Witness ==
    /\ call.pc = "done"
    /\ call.message = <<"C", "l", "E", "a", "R", "x">>
    /\ call.port_name \in DOMAIN call.prior
    /\ call.prior[call.port_name] # blank_lines(call.config.display_lines)
    /\ call.config.display_lines = 3

\* C3: when open_port returns True, the port's open/connected flag, the one
\* send_message tests, is true, for every port variant.
C3_OpenLeavesPortUsable ==
    (last_return.op = "open" /\ last_return.result = "ok")
        => CanSend(ports[last_return.port_name])

\* C4: a send_message that raises leaves every port's content as it was,
\* counts one more message and one more failure and no success, and emits
\* message-failed and nothing else.
C4_FailedSend ==
    [][(last_return'.op = "send" /\ last_return'.result = "raised") =>
          /\ display_content' = display_content
          /\ statistics'.total_messages = statistics.total_messages + 1
          /\ statistics'.failed_messages = statistics.failed_messages + 1
          /\ statistics'.successful_messages = statistics.successful_messages
          /\ EventNames(last_return'.events) = <<"message-failed">>]_vars

\* a send to a known port that is not open has raised while content is stored
C4_Witness ==
    /\ last_return.op = "send" /\ last_return.result = "raised"
    /\ last_return.port_name \in DOMAIN ports
    /\ ~CanSend(ports[last_return.port_name])
    /\ display_content # <<>>
    /\ statistics.successful_messages = 1 /\ statistics.failed_messages = 1

\* C5: the sequence numbers of the outbound records, in the order their
\* message-sent / message-failed events are emitted, are strictly increasing.
C5_SequenceIncreasing ==
    \A i \in 1..(Len(out_seqs) - 1) : out_seqs[i] < out_seqs[i + 1]

\* C6: an emit has invoked exactly the handlers registered for its event, each
\* registration once and in registration order, whether or not one of them
\* raised, and nothing has propagated out of emit.
C6_EmitInvokesAll ==
    dispatch.event # "" =>
        /\ ~dispatch.raised
        /\ dispatch.invoked = IF dispatch.event \in DOMAIN event_handlers
                              THEN event_handlers[dispatch.event] ELSE <<>>

\* an emit whose first handler raises, with a handler registered for another event
C6_Witness ==
    /\ dispatch.event = "display-update"
    /\ Len(dispatch.invoked) = 2
    /\ dispatch.invoked[1] \in FaultyHandlers
    /\ dispatch.invoked[2] \notin FaultyHandlers
    /\ "message-sent" \in DOMAIN event_handlers
    /\ event_handlers["message-sent"] # <<>>

\* C7: create_virtual_port for a name that is already registered raises, emits
\* nothing, and leaves the port, the maps, the statistics and the calls in
\* flight as they were.
C7_DuplicateCreate ==
    [][\A c \in CallerConfigs :
          (c.port_name \in DOMAIN ports /\ create_virtual_port(c)) =>
              /\ last_return' = Return("create", c.port_name, "raised", <<>>)
              /\ UNCHANGED <<ports, active_connections, display_content, statistics,
                             tasks, out_seqs>>]_vars

\* a create has raised for a port that is registered and open
C7_Witness ==
    /\ last_return = Return("create", last_return.port_name, "raised", <<>>)
    /\ last_return.port_name \in DOMAIN ports
    /\ last_return.port_name \in DOMAIN active_connections
    /\ CanSend(ports[last_return.port_name])

\* C8: close_port on a port that is unknown or has no recorded connection
\* returns without raising and leaves the port map, the active map, the
\* counter and the content as they were.
C8_CloseNoOp ==
    [][\A p \in PortNames :
          (p \notin DOMAIN active_connections /\ close_port(p)) =>
              /\ last_return'.op = "close" /\ last_return'.result = "ok"
              /\ UNCHANGED <<ports, active_connections, statistics, display_content>>]_vars

\* a close of an unknown port has returned while another port is open
C8_Witness ==
    /\ last_return = Return("close", last_return.port_name, "ok", <<>>)
    /\ last_return.port_name \notin DOMAIN ports
    /\ DOMAIN active_connections # {}
    /\ statistics.active_connections = 1

\* C9: once destroy has been called, the port, active and content maps, the
\* queue and the subscriber registry are empty and the worker has no command
\* in hand.
C9_DestroyedIsEmpty ==
    destroyed =>
        /\ ports = <<>>
        /\ active_connections = <<>>
        /\ display_content = <<>>
        /\ message_queue = <<>>
        /\ event_handlers = <<>>
        /\ worker.pc \notin {"exec", "wr_total", "rd_failed", "wr_failed"}

\* C10: a send_message that returns has emitted display-update, then
\* message-received, then message-sent, once each and nothing else; and when
\* display-update is emitted the total and successful counters already count
\* the send.
C10_SuccessfulSendEvents ==
    [][/\ (last_return'.op = "send" /\ last_return'.result = "ok") =>
             EventNames(last_return'.events) =
                <<"display-update", "message-received", "message-sent">>
       /\ \A k \in DOMAIN tasks' :
             (/\ k.op = "send" /\ k.pc = "ack"
              /\ (k \notin DOMAIN tasks \/ tasks'[k] > tasks[k])) =>
                 /\ k.events = <<Event("display-update", k.port_name, statistics')>>
                 /\ statistics'.total_messages = statistics.total_messages + 1
                 /\ statistics'.successful_messages =
                       statistics.successful_messages + 1]_vars

\* a second send has returned after a first one was counted
C10_Witness ==
    /\ last_return.op = "send" /\ last_return.result = "ok"
    /\ Len(last_return.events) = 3
    /\ last_return.events[1].total = 2
    /\ last_return.events[1].successful = 1

\* the failed outcomes among the recorded step outcomes of a result
FailedSteps(result) ==
    {i \in 1..Len(result.step_results) : ~result.step_results[i].success}

\* the result run_scenario is about to return stops at the first failing step
StopsAtFirstFailure(frame) ==
    LET result == frame.result
    IN  IF FailedSteps(result) # {}
        THEN LET k == CHOOSE i \in FailedSteps(result) :
                         \A j \in FailedSteps(result) : i <= j
             IN  /\ result.status = "failed"
                 /\ Len(result.step_results) = k
                 /\ result.error_message = result.step_results[k].error_message
                 /\ frame.executed = k
        ELSE /\ result.status = "passed"
             /\ Len(result.step_results) = Len(frame.scenario.steps)
             /\ frame.executed = Len(frame.scenario.steps)

C12_PortClosedOnReturn ==
    [][(run.pc = "cleanup" /\ run'.pc = "idle") =>
          /\ run.config.port_name \notin DOMAIN active_connections'
          /\ run'.result = run.result
          /\ results' = Append(results, run.result)]_vars

\* a run whose second step failed on an open port has returned and the port
\* was closed by the cleanup
C12_Witness ==
    /\ run.pc = "idle" /\ run.setup = "ok"
    /\ run.result.status = "failed"
    /\ Len(run.result.step_results) = 2
    /\ last_return.op = "close"
    /\ last_return.events # <<>>
    /\ run.config.port_name \notin DOMAIN active_connections
    /\ run.config.port_name \in DOMAIN ports

SummaryOf(report, rs) ==
    /\ report.summary.total_tests = Len(rs)
    /\ report.summary.passed_tests + report.summary.failed_tests = Len(rs)
    /\ report.summary.passed_tests =
          Cardinality({i \in 1..Len(rs) : rs[i].status = "passed"})
    /\ IF Len(rs) > 0
       THEN report.summary.success_rate[1] * Len(rs) =
               report.summary.passed_tests * 100 * report.summary.success_rate[2]
       ELSE report.summary.success_rate[1] = 0

C18_ExitCode ==
    cli.pc = "exited" =>
        /\ cli.exit_code \in {0, 1}
        /\ [i \in 1..Len(results) |-> results[i].scenario_id] =
              [i \in 1..Len(cli.selected) |-> cli.selected[i].id]
        /\ cli.exit_code = 0 <=>
              /\ cli.selected # <<>>
              /\ \A i \in 1..Len(results) : results[i].status # "failed"

\* the filters selected nothing from a loaded list: exit code 1
C18_Witness ==
    /\ cli.pc = "exited"
    /\ cli.selected = <<>>
    /\ "error" \in DOMAIN cli.report
    /\ cli.exit_code = 1

\* the status a followed command has now
StatusOf(c) == c.statuses[Len(c.statuses)]

\* C14: while the worker runs, every accepted command goes pending ->
\* executing -> completed or failed, with exactly one command-completed or
\* command-failed event once it is completed or failed and none before, and
\* every accepted command eventually is completed or failed, also one that
\* follows a failed command
C14_CommandsProcessed ==
    /\ [](\A i \in 1..Len(commands.log) :
             LET c == commands.log[i]
             IN  /\ c.statuses \in { <<"pending">>, <<"pending", "executing">>,
                                     <<"pending", "executing", "completed">>,
                                     <<"pending", "executing", "failed">> }
                 /\ c.events = CASE StatusOf(c) = "completed" -> <<"command-completed">>
                                 [] StatusOf(c) = "failed" -> <<"command-failed">>
                                 [] OTHER -> <<>>)
    /\ \A i \in 1..MaxCommands :
          (Len(commands.log) >= i) ~>
             (/\ Len(commands.log) >= i
              /\ StatusOf(commands.log[i]) \in {"completed", "failed"})

\* a command failed and the command queued after it was completed
C14_Witness ==
    /\ Len(commands.log) >= 2
    /\ commands.log[1].statuses = <<"pending", "executing", "failed">>
    /\ commands.log[1].events = <<"command-failed">>
    /\ commands.log[2].statuses = <<"pending", "executing", "completed">>
    /\ commands.log[2].events = <<"command-completed">>

\* C15: once stop() has been called no new test cycle starts and
\* run_continuous_tests eventually returns; stop() leaves the scenario run in
\* progress as it is, and every cycle that started has run all its scenarios
C15_StopEndsTheLoop ==
    /\ [][continuous.stopped => continuous'.cycles = continuous.cycles]_vars
    /\ [][(~continuous.stopped /\ continuous'.stopped) =>
             /\ run' = run /\ batch' = batch /\ results' = results
             /\ continuous'.pc = continuous.pc]_vars
    /\ [](continuous.pc = "returned" =>
             Len(run.calls) = continuous.cycles * Len(batch.scenarios))
    /\ (continuous.stopped ~> continuous.pc = "returned")

\* stop() was called during a cycle and the scenario run goes on
C15_Witness ==
    /\ continuous.stopped
    /\ continuous.pc = "cycle"
    /\ run.pc = "step"
    /\ run.executed >= 1

\* the scenario ids of a result list
ResultIds(rs) == [i \in 1..Len(rs) |-> rs[i].scenario_id]

\* C16: results holds one entry per run_scenario call that returned since
\* construction or the last clear_results, in call order; generate_report covers
\* all of them, and the report written after cycle n of continuous mode holds
\* the results of every cycle since the last clear, cycles 1..n when the
\* results were never cleared
C16_ResultsAccumulate ==
    /\ ResultIds(results) =
          SubSeq(run.calls, run.cleared + 1,
                 IF run.pc = "idle" THEN Len(run.calls) ELSE Len(run.calls) - 1)
    /\ results # <<>> => generate_report(results).results = ResultIds(results)
    /\ \A n \in 1..Len(continuous.reports) :
          LET report == continuous.reports[n]
          IN  /\ report.results =
                    SubSeq(run.calls, report.cleared + 1,
                           report.cycle * Len(batch.scenarios))
              /\ report.cleared = 0 =>
                    Len(report.results) = report.cycle * Len(batch.scenarios)

\* the report of the second cycle holds the results of both cycles
C16_Witness ==
    /\ Len(continuous.reports) = 2
    /\ continuous.reports[2].cycle = 2
    /\ Len(batch.scenarios) = 2
    /\ Len(continuous.reports[2].results) = 4
    /\ run.cleared = 0

\* the display of the validator call made
ValidatedDisplay == [content |-> validation.content, is_active |-> validation.is_active]

\* the entries of the expectation that are not a known rule or are violated
Offending ==
    {i \in 1..Len(validation.expected) :
        \/ validation.expected[i].name \notin RuleNames
        \/ ~validator(validation.expected[i].name, ValidatedDisplay,
                      validation.expected[i].value).is_valid}

\* C19: validate_display_content evaluates the rules in map order and returns
\* the outcome of the first rule that is violated or unknown without
\* evaluating a later rule; it returns valid only if every rule is known and
\* satisfied, and never for a map that holds an unknown rule name
C19_FirstOffendingRule ==
    validation.pc = "done" =>
        LET expected == validation.expected
            names == [i \in 1..Len(expected) |-> expected[i].name]
        IN  /\ validation.result.is_valid <=> Offending = {}
            /\ (\E i \in 1..Len(expected) : names[i] \notin RuleNames)
                  => ~validation.result.is_valid
            /\ IF Offending = {}
               THEN validation.evaluated = names
               ELSE LET k == CHOOSE i \in Offending : \A j \in Offending : i <= j
                    IN  IF names[k] \notin RuleNames
                        THEN /\ validation.result.error = "Unknown validation rule"
                             /\ validation.evaluated = SubSeq(names, 1, k - 1)
                        ELSE /\ validation.result =
                                   validator(names[k], ValidatedDisplay, expected[k].value)
                             /\ validation.evaluated = SubSeq(names, 1, k)

\* an unknown rule after a satisfied rule: the first rule was evaluated and
\* the unknown rule is reported
C19_Witness ==
    /\ validation.pc = "done"
    /\ Len(validation.expected) = 2
    /\ validation.expected[1].name = "not_empty"
    /\ validation.expected[2].name = "contains"
    /\ validation.evaluated = <<"not_empty">>
    /\ validation.result.error = "Unknown validation rule"

\* C20: content_match with a list expectation passes if and only if the
\* content has as many lines as the expectation and every trimmed content line
\* equals the expected line at its place; on a failure by line content the
\* error names the 1-based number of the first mismatching line
C20_ListContentMatch ==
    ( /\ validation.pc = "done"
      /\ Len(validation.expected) = 1
      /\ validation.expected[1].name = "content_match"
      /\ validation.expected[1].value.kind = "list" ) =>
        LET content == validation.content
            lines == validation.expected[1].value.lines
            differ == {i \in 1..Len(content) :
                          Len(lines) = Len(content) /\ strip(content[i]) # lines[i]}
        IN  /\ validation.result.is_valid <=> (Len(content) = Len(lines) /\ differ = {})
            /\ Len(content) # Len(lines) =>
                  validation.result.error = "Line count mismatch"
            /\ differ # {} =>
                  /\ validation.result.error = "Line mismatch"
                  /\ validation.result.line \in differ
                  /\ \A i \in differ : validation.result.line <= i

\* two lines, the first equal once trimmed, the second not: line 2 is named
C20_Witness ==
    /\ validation.pc = "done"
    /\ validation.expected = <<[name |-> "content_match",
                                value |-> RuleValue("list", <<>>, <<(<<"a">>),
                                (<<"a">>)>>, 0)]>>
    /\ validation.content = <<(<<" ", "a", " ">>), (<<"b">>)>>
    /\ ~validation.result.is_valid
    /\ validation.result.line = 2

\* C21: for every content array, the empty one and those of blank lines
\* included, exactly one of the rules is_empty and not_empty passes
C21_EmptyOrNot ==
    validation.pc = "done" =>
        _validate_is_empty(ValidatedDisplay).is_valid
            # _validate_not_empty(ValidatedDisplay).is_valid

\* a content of blank lines only went through is_empty, which passed, and then
\* through not_empty, which failed
C21_Witness ==
    /\ validation.pc = "done"
    /\ validation.content = <<(<<" ">>), <<>> >>
    /\ Len(validation.expected) = 2
    /\ validation.expected[1].name = "is_empty"
    /\ validation.expected[2].name = "not_empty"
    /\ validation.evaluated = <<"is_empty", "not_empty">>
    /\ validation.result.error = "Expected display to have content"

\* send_message calls that updated the counters and are suspended in the
\* acknowledgment delay
CountedInFlight ==
    BagCardinality([k \in {x \in DOMAIN tasks : x.op = "send" /\ x.pc = "ack"}
                      |-> tasks[k]])

\* C28: with cooperative callers total_messages = successful_messages +
\* failed_messages in every state, and every send_message call that returned
\* or raised has increased total_messages by exactly one: the total is the
\* number of finished calls plus the calls already counted and not yet returned
C28_TotalIsSum ==
    /\ statistics.total_messages
          = statistics.successful_messages + statistics.failed_messages
    /\ statistics.total_messages = Len(out_seqs) + CountedInFlight

\* one send returned and another raised
C28_Witness ==
    /\ statistics.successful_messages = 1
    /\ statistics.failed_messages = 1
    /\ statistics.total_messages = 2
    /\ Len(out_seqs) = 2
    /\ last_return.op = "send"
    /\ last_return.result = "raised"

\* C29: the statistics counter active_connections equals the number of
\* entries of the active-connection map and is never negative, also after
\* open_port on a port that is already open
C29_CounterMatchesMap ==
    /\ statistics.active_connections = Cardinality(DOMAIN active_connections)
    /\ statistics.active_connections >= 0

\* the names of the events a finished call emitted
EventNamesOf(events) == {events[i].name : i \in 1..Len(events)}

\* every simulated_failures list with every error_rate of interest
FaultConfigs ==
    {VirtualDisplayConfig("COM1", "serial", 2, 3, f, r) :
        f \in SUBSET {"timeout", "disconnect", "corruption"}, r \in {0, 50, 100}}

\* open_port raises no simulated failure when the disconnect kind is not
\* configured or error_rate is 0, whatever random.random() draws
NoUnconfiguredDisconnect ==
    \A c \in FaultConfigs, d \in Draws :
        ("disconnect" \notin c.simulated_failures \/ c.error_rate = 0)
            => ~open_check(c, d)

\* a step in which an open_port call raises
OpenRaises == last_return'.op = "open" /\ last_return'.result = "raised"

\* C30 as stated: an open_port that raises has emitted port-open-failed and
\* no port-opened, leaves the port's open/connected flags false and the
\* active-connection map and counter unchanged; no simulated failure without
\* the disconnect kind or with error_rate 0
C30_FailedOpenLeavesPortClosed ==
    /\ NoUnconfiguredDisconnect
    /\ [][OpenRaises =>
            /\ "port-open-failed" \in EventNamesOf(last_return'.events)
            /\ "port-opened" \notin EventNamesOf(last_return'.events)
            /\ last_return'.port_name \in DOMAIN ports' =>
                  /\ ~ports'[last_return'.port_name].is_open
                  /\ ~ports'[last_return'.port_name].is_connected
            /\ active_connections' = active_connections
            /\ statistics' = statistics]_vars

\* C30: an open_port that raises has emitted port-open-failed last and no
\* port-opened, leaves every port's open/connected flags as they were (false
\* for a closed or just created port, true for a port that was already open)
\* and the active-connection map and counter unchanged; no simulated failure
\* without the disconnect kind or with error_rate 0
C30_FailedOpenChangesNothing ==
    /\ NoUnconfiguredDisconnect
    /\ [][OpenRaises =>
            /\ last_return'.events # <<>>
            /\ last_return'.events[Len(last_return'.events)].name = "port-open-failed"
            /\ "port-opened" \notin EventNamesOf(last_return'.events)
            /\ ports' = ports
            /\ active_connections' = active_connections
            /\ statistics' = statistics]_vars

\* an open_port on a port that is open raised on a simulated disconnect
C30_Witness ==
    /\ last_return.op = "open"
    /\ last_return.result = "raised"
    /\ last_return.port_name \in DOMAIN active_connections
    /\ ports[last_return.port_name].is_open

\* an open_port raised after it had created the port
C30_WitnessCreated ==
    /\ last_return.op = "open"
    /\ last_return.result = "raised"
    /\ EventNamesOf(last_return.events) = {"port-created", "port-open-failed"}
    /\ ~ports[last_return.port_name].is_open

\* C27: the worker thread's write and a foreground send_message never lose a
\* counter update: total_messages is the number of send attempts that have
\* finished, on either thread, plus those counted and not yet finished
C27_NoLostUpdate ==
    statistics.total_messages
        = Len(out_seqs) + CountedInFlight
            + (IF worker.pc \in {"rd_failed", "wr_failed"} THEN 1 ELSE 0)

RECURSIVE Sum(_)
Sum(seq) == IF seq = <<>> THEN 0 ELSE seq[1] + Sum(Tail(seq))

\* C24: after n successful sends with latencies L1..Ln, with failed sends in
\* between, average_latency = (L1 + ... + Ln) / n, and a send that raises
\* leaves average_latency as it was
C24_AverageIsMean ==
    /\ [](/\ Len(clock.measured) = statistics.successful_messages
          /\ clock.measured # <<>> =>
                statistics.average_latency[1] * Len(clock.measured)
                    = Sum(clock.measured) * statistics.average_latency[2])
    /\ [][(last_return'.op = "send" /\ last_return'.result = "raised") =>
             statistics'.average_latency = statistics.average_latency]_vars

\* three successful sends of unequal latencies and a failed one after them
C24_Witness ==
    /\ clock.measured = <<1, 1, 2>>
    /\ statistics.successful_messages = 3
    /\ statistics.failed_messages = 1
    /\ statistics.average_latency = <<4, 3>>
    /\ last_return.op = "send"
    /\ last_return.result = "raised"

\* C26: a call of setup_logger with a name that already has handlers leaves
\* the logger's handler list and its level as the earlier call left them
C26_SecondCallChangesNothing ==
    [][\A name \in DOMAIN loggers : loggers'[name] = loggers[name]]_vars

\* C25: every display of the main window has config.display_lines lines
\* of content, none longer than config.line_length
C25_ContentFitsConfig ==
    \A d \in DOMAIN window.displays :
        LET display == window.displays[d]
        IN  /\ Len(display.current_content) = display.config.display_lines
            /\ \A i \in 1..Len(display.current_content) :
                  Len(display.current_content[i]) <= display.config.line_length

\* a step in which load_from_yaml or load_from_json ran to its end
LoadStep ==
    /\ loader'.last.op \in {"load_from_yaml", "load_from_json"}
    /\ loader'.files = loader.files
    /\ loader' # loader \/ loader.last.op \in {"load_from_yaml", "load_from_json"}

\* the parser of the load that ran
ParserOf(op) == IF op = "load_from_yaml" THEN "yaml" ELSE "json"

\* a scenario entry or one of its steps lacks a required key
LacksRequired(entry) ==
    \/ "id" \notin DOMAIN entry
    \/ "name" \notin DOMAIN entry
    \/ \E i \in 1..Len(get(entry, "steps", <<>>)) :
          "name" \notin DOMAIN entry.steps[i] \/ "action" \notin DOMAIN entry.steps[i]

\* the file at path is missing, unparsable by the parser, or has a scenario
\* entry that lacks a required field
BadFile(path, parser) ==
    IF path \notin DOMAIN loader.files THEN TRUE
    ELSE LET file == loader.files[path]
         IN  \/ file.format = "text"
             \/ parser = "json" /\ file.format = "yaml"
             \/ /\ "scenarios" \in DOMAIN file.document
                /\ \E i \in 1..Len(file.document.scenarios) :
                      LacksRequired(file.document.scenarios[i])

\* C22: load_from_yaml and load_from_json never raise, and return the empty
\* list when the file is missing, unparsable, or has a scenario entry that
\* lacks a required field
C22_LoadNeverRaises ==
    [][LoadStep =>
          /\ loader'.last.raised = ""
          /\ BadFile(loader'.last.path, ParserOf(loader'.last.op))
                => loader'.last.scenarios = <<>>]_vars

\* a load of a file whose second entry has a step without an action returned
\* the empty list, after the first entry was registered
C22_Witness ==
    /\ loader.last.op = "load_from_yaml"
    /\ loader.last.raised = ""
    /\ loader.last.scenarios = <<>>
    /\ "scenarios" \in DOMAIN loader.files
    /\ loader.files["scenarios"].format = "yaml"
    /\ "scenarios" \in DOMAIN loader.files["scenarios"].document
    /\ loader.files["scenarios"].document.scenarios
          = <<[id |-> "s1", name |-> "S1"],
              [id |-> "s2", name |-> "S2", steps |-> <<[name |-> "send"]>>]>>
    /\ DOMAIN loader.scenarios = {"s1"}

\* the fields of a scenario that saving and loading keep
Kept(scenario) ==
    [id |-> scenario.id, name |-> scenario.name, category |-> scenario.category,
     tags |-> scenario.tags,
     steps |-> [i \in 1..Len(scenario.steps) |->
                  [action |-> scenario.steps[i].action, data |-> scenario.steps[i].data]]]

\* C23: loading a file that save_to_yaml / save_to_json wrote, with the parser
\* of its format, returns scenarios with the id, name, category, tags, number
\* of steps and per-step action and data of the scenarios saved
C23_SaveThenLoad ==
    [][(/\ LoadStep
        /\ loader'.last.path \in DOMAIN loader.saved
        /\ loader.files[loader'.last.path].format = ParserOf(loader'.last.op)) =>
          LET saved == loader.saved[loader'.last.path]
              loaded == loader'.last.scenarios
          IN  /\ Len(loaded) = Len(saved)
              /\ \A i \in 1..Len(saved) : Kept(loaded[i]) = Kept(saved[i])]_vars

\* two scenarios of category HARDWARE, with tags and two steps, were saved as
\* JSON and loaded back
C23_Witness ==
    /\ loader.last.op = "load_from_json"
    /\ "scenarios" \in DOMAIN loader.saved
    /\ loader.files["scenarios"].format = "json"
    /\ Len(loader.last.scenarios) = 2
    /\ loader.last.scenarios[2].category = "HARDWARE"
    /\ Len(loader.last.scenarios[2].steps) = 2
    /\ loader.last.scenarios = loader.saved["scenarios"]

\* the worker finishes the write command it took from the queue while the
\* command's port is registered and open
WriteCommandDone ==
    /\ worker.command.type = "write"
    /\ worker'.command = NoCommand
    /\ worker.command.port_name \in DOMAIN ports
    /\ CanSend(ports[worker.command.port_name])

\* C31: a write command the worker executes for a registered, open port ends
\* with command-completed, and the content stored for the port is the
\* command's text laid out for some configuration
C31_WriteCommandCompletes ==
    [][WriteCommandDone =>
          /\ \E i \in 1..Len(worker'.events) : worker'.events[i] = "command-completed"
          /\ worker.command.port_name \in DOMAIN display_content'
          /\ \E config \in CallerConfigs :
                display_content'[worker.command.port_name]
                    = content_of(worker.command.data, config)]_vars

\* C32: the step in which the panel's set_display loads a display emits no
\* config_changed and leaves the configuration of that display as it was
C32_LoadChangesNothing ==
    [][\A d \in DOMAIN window.displays :
          (window'.current_display = d /\ window.current_display # d) =>
              /\ window'.config_changed = 0
              /\ window'.displays[d].config = window.displays[d].config]_vars

\* C33: no two displays the main window holds have the same port name
C33_PortNamesDistinct ==
    \A d1, d2 \in DOMAIN window.displays :
        d1 # d2 => window.displays[d1].config.port_name
                       # window.displays[d2].config.port_name

C35_BridgeStoresAsCore ==
    bridge.last.known =>
        display_content[bridge.last.port_name]
            = content_of(bridge.last.message,
                         bridge.current_displays[bridge.last.port_name])

\* C35: the file bridge stores, for every message, the lines the core stores
\* for a message that is not a clear: the message split, limited, padded and
\* truncated. It is the core's content unless the message is blank or starts
\* with "clear", which the bridge stores as text
C35_BridgeStoresLines ==
    bridge.last.known =>
        LET config == bridge.current_displays[bridge.last.port_name]
            stored == display_content[bridge.last.port_name]
        IN  /\ stored = lines_of(bridge.last.message, config)
            /\ ~is_clear(bridge.last.message) =>
                  stored = content_of(bridge.last.message, config)

\* the bridge stored "Clear" as text on the USB display, cut to its width
C35_Witness ==
    /\ "USB_DISPLAY" \in DOMAIN bridge.current_displays
    /\ "USB_DISPLAY" \in DOMAIN display_content
    /\ bridge.last = [port_name |-> "USB_DISPLAY", known |-> TRUE,
                      message |-> <<"C", "l", "e", "a", "r">>]
    /\ display_content["USB_DISPLAY"] = <<<<"C", "l">>, <<>>>>

\* C36: every line a sender appended for a created display has been applied
\* by a poll, in the order appended, or is still in the message file
C36_NoLineLost ==
    bridge.appended = bridge.processed \o fields(strip(bridge.file))

\* C37: the communications table never holds more than 1000 rows, and it holds
\* the newest entries in the order added: an entry added to a full table is
\* the last row and the oldest row is the one that left
C37_TableKeepsNewest ==
    LET n == Len(monitoring.rows)
    IN  /\ n <= max_rows
        /\ n = IF monitoring.added < max_rows THEN monitoring.added ELSE max_rows
        /\ monitoring.rows = [i \in 1..n |-> monitoring.added - n + i]

\* two entries have been added to a full table
C37_Witness ==
    /\ monitoring.added = max_rows + 2
    /\ Len(monitoring.rows) = max_rows
    /\ monitoring.rows[1] = 3
    /\ monitoring.rows[max_rows] = max_rows + 2
    /\ monitoring.last.time = max_rows + 2

\* C38: a load that fails and returns the empty list leaves the loader's
\* index of scenarios by id as it was
C38_FailedLoadLeavesIndex ==
    [][(/\ LoadStep
        /\ BadFile(loader'.last.path, ParserOf(loader'.last.op))
        /\ loader'.last.scenarios = <<>>) =>
          loader'.scenarios = loader.scenarios]_vars

\* the action of the step the runner executes raised an error: a send step
\* without data, or send_message raising for a send or a clear step
ActionRaised ==
    LET step == run.scenario.steps[run.index]
    IN  CASE step.action = "wait" -> FALSE
          [] step.action = "send" /\ step.data = <<>> -> TRUE
          [] OTHER -> last_return'.result = "raised"

\* C39: a send, clear or wait step passes if and only if its action raised
\* no error, whatever result the step expects and whatever the display shows
C39_StepPassesIffNoError ==
    [][(/\ run.pc = "step"
        /\ run'.executed = run.executed + 1
        /\ run.scenario.steps[run.index].action \in {"send", "clear", "wait"}) =>
          LET outcome == run'.result.step_results[Len(run'.result.step_results)]
          IN  outcome.success <=> ~ActionRaised]_vars

\* the clear, wait and send steps of a scenario passed although each expects
\* a content the display does not show
C39_Witness ==
    /\ run.scenario.id = "clear_wait_send"
    /\ Len(run.result.step_results) = 3
    /\ \A i \in 1..3 :
          /\ run.result.step_results[i].success
          /\ run.scenario.steps[i].expected_result
                = <<[name |-> "content_match", value |-> <<"n", "o">>]>>
    /\ run.result.status = "passed"
    /\ "COM1" \in DOMAIN display_content
    /\ display_content["COM1"] = content_of(Text, run.config)
    /\ display_content["COM1"][1] # <<"n", "o">>

\* C40: the configuration the console registry holds under a port name has
\* that port name
C40_EntriesKeepOwnConfig ==
    \A p \in DOMAIN console.displays : registered_config(p).port_name = p

=============================================================================
